---- MODULE Spec2Model ----
(***************************************************************************)
(* Schema resolution of slack-lists-cli: the discovery chain of            *)
(* resolveSchemaIndex (explicit file, cache, slackLists.info,              *)
(* slackLists.items.list + merge), the schema cache file it reads and      *)
(* writes, and the pure schema functions it calls.                         *)
(*                                                                         *)
(* JavaScript values are tagged records: [t |-> "string", v |-> "abc"],    *)
(* [t |-> "object", v |-> <function from property names to values>],       *)
(* [t |-> "array", v |-> <sequence>], [t |-> "undefined"], [t |-> "null"], *)
(* [t |-> "boolean", v |-> TRUE].  A property that is absent and a         *)
(* property that holds undefined both read as Undefined, but only the      *)
(* second is an own property (spread copies it, JSON.stringify drops it).  *)
(***************************************************************************)
EXTENDS Integers, Sequences, FiniteSets, TLC

\* ------------------------------------------------------------------ values

Undefined == [t |-> "undefined"]
Null == [t |-> "null"]
Str(s) == [t |-> "string", v |-> s]
Bool(b) == [t |-> "boolean", v |-> b]
Num(n) == [t |-> "number", v |-> n]
Obj(r) == [t |-> "object", v |-> r]
Arr(s) == [t |-> "array", v |-> s]

\* The object with no property.
EmptyProps == [f \in {} |-> Undefined]

\* o.f (and o?.f): undefined when o is no object or has no such property.
Get(o, f) == IF o.t = "object" /\ f \in DOMAIN o.v THEN o.v[f] ELSE Undefined

\* o.f = x on an object.
Put(o, f, x) == Obj([g \in DOMAIN o.v \cup {f} |-> IF g = f THEN x ELSE o.v[g]])

\* JavaScript truthiness, as used by !x, x && y and if (x).
Truthy(x) ==
  CASE x.t = "undefined" -> FALSE
    [] x.t = "null" -> FALSE
    [] x.t = "string" -> x.v # ""
    [] x.t = "boolean" -> x.v
    [] x.t = "number" -> x.v # 0
    [] OTHER -> TRUE

\* typeof x.
TypeOf(x) ==
  CASE x.t \in {"object", "array", "null"} -> "object"
    [] OTHER -> x.t

\* a ?? b.
Coalesce(a, b) == IF a.t \in {"undefined", "null"} THEN b ELSE a

\* String(x), for the values a column id is drawn from.
ToJsString(x) ==
  CASE x.t = "string" -> x.v
    [] x.t = "boolean" -> IF x.v THEN "true" ELSE "false"
    [] x.t = "null" -> "null"
    [] x.t = "undefined" -> "undefined"
    [] x.t = "array" -> "[array]"
    [] OTHER -> "[object Object]"

\* s.toLowerCase(), tabulated for the strings of this model (every other
\* string of the model is already lower case).
ToLowerCase(s) ==
  CASE s = "Status" -> "status"
    [] s = "STATUS" -> "status"
    [] s = "Title" -> "title"
    [] s = "TITLE" -> "title"
    [] s = "Select" -> "select"
    [] s = "SELECT" -> "select"
    [] s = "Text" -> "text"
    [] s = "Rich_Text" -> "rich_text"
    [] s = "Formula" -> "formula"
    [] s = "Name" -> "name"
    [] s = "Task" -> "task"
    [] s = "C1" -> "c1"
    [] s = "C2" -> "c2"
    [] s = "Priority" -> "priority"
    [] OTHER -> s

\* JSON.parse(JSON.stringify(x)): a property holding undefined is dropped,
\* an array element holding undefined becomes null.
RECURSIVE JsonRoundTrip(_)
JsonRoundTrip(x) ==
  CASE x.t = "object" ->
         LET kept == {f \in DOMAIN x.v : x.v[f].t # "undefined"}
         IN Obj([f \in kept |-> JsonRoundTrip(x.v[f])])
    [] x.t = "array" ->
         Arr([i \in DOMAIN x.v |->
                IF x.v[i].t = "undefined" THEN Null ELSE JsonRoundTrip(x.v[i])])
    [] OTHER -> x

\* A function result: a value, or a thrown error.
Ok(x) == [ok |-> TRUE, value |-> x]
Throw(e) == [ok |-> FALSE, error |-> e]

\* ------------------------------------------------------------------ schema

AllowedColumnTypes ==
  {"text", "rich_text", "number", "rating", "date", "user", "channel", "select",
   "checkbox", "currency", "url", "emoji", "attachment", "link", "message",
   "reference", "todo_assignee", "todo_due_date", "todo_completed"}

\* Mutant of normalizeColumnType: the raw type is compared as it is written.
normalizeColumnTypeExactCase(type) ==
  IF TypeOf(type) # "string" THEN "unknown"
  ELSE IF type.v \in AllowedColumnTypes THEN type.v
  ELSE "unknown"

normalizeColumnType(type) ==
  IF TypeOf(type) # "string" THEN "unknown"
  ELSE IF ToLowerCase(type.v) \in AllowedColumnTypes THEN ToLowerCase(type.v)
  ELSE "unknown"

normalizeColumn(column) ==
  IF ~Truthy(column) \/ TypeOf(column) # "object"
  THEN Throw("Invalid column entry in schema")
  ELSE LET id == ToJsString(Coalesce(Get(column, "id"),
                     Coalesce(Get(column, "column_id"),
                       Coalesce(Get(column, "columnId"), Str("")))))
       IN IF id = "" THEN Throw("Schema column missing id/column_id")
          ELSE Ok(Obj([
                 id |-> Str(id),
                 key |-> IF TypeOf(Get(column, "key")) = "string"
                         THEN Get(column, "key") ELSE Undefined,
                 name |-> IF TypeOf(Get(column, "name")) = "string"
                          THEN Get(column, "name") ELSE Str(id),
                 type |-> Str(normalizeColumnType(Get(column, "type"))),
                 is_primary_column |-> Bool(Truthy(Get(column, "is_primary_column"))),
                 options |-> IF TypeOf(Get(column, "options")) = "object"
                             THEN Get(column, "options") ELSE Undefined]))

buildSchemaFromRaw(listId, rawColumns) ==
  IF rawColumns.t # "array" THEN Throw("Schema columns must be an array")
  ELSE LET cols == [i \in DOMAIN rawColumns.v |-> normalizeColumn(rawColumns.v[i])]
           bad == {i \in DOMAIN cols : ~cols[i].ok}
       IN IF bad # {}
          THEN Throw(cols[CHOOSE i \in bad : \A j \in bad : i <= j].error)
          ELSE Ok(Obj([
                 list_id |-> IF TypeOf(listId) = "string" THEN listId ELSE Str(""),
                 columns |-> Arr([i \in DOMAIN cols |-> cols[i].value])]))

\* Mutant of normalizeSchema: the top-level columns list is preferred to the
\* top-level schema list.
normalizeSchemaColumnsFirst(data) ==
  LET metadata == Get(data, "list_metadata")
      nested == Coalesce(Get(metadata, "schema"), Get(metadata, "columns"))
      topId == Coalesce(Get(data, "list_id"), Get(data, "listId"))
  IN IF Truthy(metadata) /\ TypeOf(metadata) = "object" /\ nested.t = "array"
     THEN buildSchemaFromRaw(Coalesce(Get(metadata, "id"), topId), nested)
     ELSE IF Get(data, "columns").t = "array"
     THEN buildSchemaFromRaw(topId, Get(data, "columns"))
     ELSE IF Get(data, "schema").t = "array"
     THEN buildSchemaFromRaw(topId, Get(data, "schema"))
     ELSE Throw("Schema file missing expected schema/columns list")

\* Mutant of normalizeSchema: the list id beside a top-level list is read
\* under listId only.
normalizeSchemaCamelListId(data) ==
  LET metadata == Get(data, "list_metadata")
      nested == Coalesce(Get(metadata, "schema"), Get(metadata, "columns"))
      topId == Coalesce(Get(data, "list_id"), Get(data, "listId"))
  IN IF Truthy(metadata) /\ TypeOf(metadata) = "object" /\ nested.t = "array"
     THEN buildSchemaFromRaw(Coalesce(Get(metadata, "id"), topId), nested)
     ELSE IF Get(data, "schema").t = "array"
     THEN buildSchemaFromRaw(Get(data, "listId"), Get(data, "schema"))
     ELSE IF Get(data, "columns").t = "array"
     THEN buildSchemaFromRaw(Get(data, "listId"), Get(data, "columns"))
     ELSE Throw("Schema file missing expected schema/columns list")

normalizeSchema(data) ==
  LET metadata == Get(data, "list_metadata")
      nested == Coalesce(Get(metadata, "schema"), Get(metadata, "columns"))
      topId == Coalesce(Get(data, "list_id"), Get(data, "listId"))
  IN IF Truthy(metadata) /\ TypeOf(metadata) = "object" /\ nested.t = "array"
     THEN buildSchemaFromRaw(Coalesce(Get(metadata, "id"), topId), nested)
     ELSE IF Get(data, "schema").t = "array"
     THEN buildSchemaFromRaw(topId, Get(data, "schema"))
     ELSE IF Get(data, "columns").t = "array"
     THEN buildSchemaFromRaw(topId, Get(data, "columns"))
     ELSE Throw("Schema file missing expected schema/columns list")

TypeHints ==
  <<"rich_text", "text", "user", "select", "date", "rating", "checkbox", "link",
    "attachment", "message", "reference", "channel", "emoji">>

\* The first hint that is a property of the field (key in field); each hint
\* names the type it stands for.
inferColumnType(field) ==
  LET hits == {i \in DOMAIN TypeHints : TypeHints[i] \in DOMAIN field.v}
  IN IF hits = {} THEN "unknown"
     ELSE TypeHints[CHOOSE i \in hits : \A j \in hits : i <= j]

\* The fields of all items in visiting order: items that are no object or
\* whose fields is no array are skipped, as are fields that are no object.
RECURSIVE FieldsOf(_)
FieldsOf(items) ==
  IF items = <<>> THEN <<>>
  ELSE LET item == Head(items)
           fields == Get(item, "fields")
           own == IF Truthy(item) /\ TypeOf(item) = "object" /\ fields.t = "array"
                  THEN SelectSeq(fields.v, LAMBDA f : Truthy(f) /\ TypeOf(f) = "object")
                  ELSE <<>>
       IN own \o FieldsOf(Tail(items))

\* Mutant of InferredColumn: the values of a select field are reported as the
\* choices of the column.
InferredColumnWithChoices(field, columnId) ==
  LET key == IF TypeOf(Get(field, "key")) = "string" THEN Get(field, "key")
             ELSE Undefined
  IN Obj([id |-> Str(columnId),
          key |-> key,
          name |-> Coalesce(key, Str(columnId)),
          type |-> Str(inferColumnType(field)),
          options |-> IF "select" \in DOMAIN field.v
                      THEN Obj([choices |-> Get(field, "select")]) ELSE Undefined])

\* The column pushed for a field seen for the first time.
InferredColumn(field, columnId) ==
  LET key == IF TypeOf(Get(field, "key")) = "string" THEN Get(field, "key")
             ELSE Undefined
  IN Obj([id |-> Str(columnId),
          key |-> key,
          name |-> Coalesce(key, Str(columnId)),
          type |-> Str(inferColumnType(field))])

\* Mutant of InferLoop: a later field of an id that was seen replaces the
\* column of that id.
RECURSIVE InferLoopLastWins(_, _, _)
InferLoopLastWins(fields, columns, seen) ==
  IF fields = <<>> THEN columns
  ELSE LET field == Head(fields)
           columnId == ToJsString(Coalesce(Get(field, "column_id"),
                         Coalesce(Get(field, "columnId"), Str(""))))
       IN IF columnId = "" THEN InferLoopLastWins(Tail(fields), columns, seen)
          ELSE IF columnId \in seen
          THEN InferLoopLastWins(Tail(fields),
                 [n \in DOMAIN columns |->
                    IF Get(columns[n], "id") = Str(columnId)
                    THEN InferredColumn(field, columnId) ELSE columns[n]],
                 seen)
          ELSE InferLoopLastWins(Tail(fields),
                                 Append(columns, InferredColumn(field, columnId)),
                                 seen \cup {columnId})

RECURSIVE InferLoop(_, _, _)
InferLoop(fields, columns, seen) ==
  IF fields = <<>> THEN columns
  ELSE LET field == Head(fields)
           columnId == ToJsString(Coalesce(Get(field, "column_id"),
                         Coalesce(Get(field, "columnId"), Str(""))))
       IN IF columnId = "" \/ columnId \in seen
          THEN InferLoop(Tail(fields), columns, seen)
          ELSE InferLoop(Tail(fields),
                         Append(columns, InferredColumn(field, columnId)),
                         seen \cup {columnId})

inferSchemaFromItems(listId, items) ==
  Obj([list_id |-> Str(listId),
       columns |-> Arr(InferLoop(FieldsOf(items), <<>>, {}))])

\* Mutant of MergeFill: a known incoming type replaces the type already held.
MergeFillOverwritingType(existing, column) ==
  LET e1 == IF ~Truthy(Get(existing, "key")) /\ Truthy(Get(column, "key"))
            THEN Put(existing, "key", Get(column, "key")) ELSE existing
      e2 == IF (~Truthy(Get(e1, "name")) \/ Get(e1, "name") = Get(e1, "id"))
               /\ Truthy(Get(column, "name"))
            THEN Put(e1, "name", Get(column, "name")) ELSE e1
      e3 == IF Get(column, "type") # Str("unknown")
            THEN Put(e2, "type", Get(column, "type")) ELSE e2
  IN e3

\* One pass of the loop of mergeSchemas over incoming.columns[j].  index maps
\* a column id to the object the Map holds for it: a copy in merged
\* (from base) or, for an id first met in incoming, the incoming column itself
\* (index.set(column.id, column)), so a later incoming column of the same id
\* fills the incoming object and not the copy pushed to merged.
MergeFill(existing, column) ==
  LET e1 == IF ~Truthy(Get(existing, "key")) /\ Truthy(Get(column, "key"))
            THEN Put(existing, "key", Get(column, "key")) ELSE existing
      e2 == IF (~Truthy(Get(e1, "name")) \/ Get(e1, "name") = Get(e1, "id"))
               /\ Truthy(Get(column, "name"))
            THEN Put(e1, "name", Get(column, "name")) ELSE e1
      e3 == IF Get(e2, "type") = Str("unknown") /\ Get(column, "type") # Str("unknown")
            THEN Put(e2, "type", Get(column, "type")) ELSE e2
      e4 == IF ~Truthy(Get(e3, "options")) /\ Truthy(Get(column, "options"))
            THEN Put(e3, "options", Get(column, "options")) ELSE e3
  IN e4

RECURSIVE MergeLoop(_, _, _, _)
MergeLoop(merged, incoming, index, j) ==
  IF j > Len(incoming) THEN [merged |-> merged, incoming |-> incoming]
  ELSE LET column == incoming[j]
           id == Get(column, "id")
       IN IF id \notin DOMAIN index
          THEN MergeLoop(Append(merged, column), incoming,
                         [k \in DOMAIN index \cup {id} |->
                            IF k = id THEN [arr |-> "incoming", at |-> j] ELSE index[k]],
                         j + 1)
          ELSE LET ref == index[id]
               IN IF ref.arr = "merged"
                  THEN MergeLoop([merged EXCEPT ![ref.at] = MergeFill(@, column)],
                                 incoming, index, j + 1)
                  ELSE MergeLoop(merged,
                                 [incoming EXCEPT ![ref.at] = MergeFill(@, column)],
                                 index, j + 1)

\* new Map(merged.map(column => [column.id, column])): the last column of an
\* id is the one the Map holds.
MergeIndex(merged) ==
  LET ids == {Get(merged[i], "id") : i \in DOMAIN merged}
  IN [id \in ids |->
        [arr |-> "merged",
         at |-> CHOOSE i \in DOMAIN merged :
                  /\ Get(merged[i], "id") = id
                  /\ \A k \in DOMAIN merged : Get(merged[k], "id") = id => k <= i]]

\* The run of mergeSchemas: the schema it returns and incoming.columns as the
\* call leaves them.
MergeRun(base, incoming) ==
  IF ~Truthy(base)
  THEN [result |-> incoming, incoming |-> Get(incoming, "columns").v]
  ELSE LET merged0 == Get(base, "columns").v
           run == MergeLoop(merged0, Get(incoming, "columns").v, MergeIndex(merged0), 1)
       IN [result |-> Obj([list_id |-> IF Truthy(Get(incoming, "list_id"))
                                       THEN Get(incoming, "list_id")
                                       ELSE Get(base, "list_id"),
                           columns |-> Arr(run.merged)]),
           incoming |-> run.incoming]

mergeSchemas(base, incoming) == MergeRun(base, incoming).result

\* Mutant of MapOf: a key keeps the first column set under it.
MapOfFirstWins(columns, keys, has) ==
  [key \in {keys[i] : i \in has} |->
     columns[CHOOSE i \in has :
               /\ keys[i] = key
               /\ \A k \in has : keys[k] = key => i <= k]]

\* A Map filled by set() in column order: keys[i] is the key column i is set
\* under, for the columns i of has; the last column set under a key is the one
\* the key holds.
MapOf(columns, keys, has) ==
  [key \in {keys[i] : i \in has} |->
     columns[CHOOSE i \in has :
               /\ keys[i] = key
               /\ \A k \in has : keys[k] = key => k <= i]]

buildSchemaIndex(schema) ==
  LET columns == Get(schema, "columns").v
      all == DOMAIN columns
      keyed == {i \in all : Truthy(Get(columns[i], "key"))}
  IN [schema |-> schema,
      byId |-> MapOf(columns, [i \in all |-> Get(columns[i], "id").v], all),
      byKey |-> MapOf(columns, [i \in keyed |-> ToLowerCase(Get(columns[i], "key").v)],
                      keyed),
      byName |-> MapOf(columns, [i \in all |-> ToLowerCase(Get(columns[i], "name").v)],
                       all)]

\* Mutant of resolveColumn: the identifier is looked up as it is written.
resolveColumnExactCase(index, identifier) ==
  IF identifier \in DOMAIN index.byId THEN index.byId[identifier]
  ELSE IF identifier \in DOMAIN index.byKey THEN index.byKey[identifier]
  ELSE IF identifier \in DOMAIN index.byName THEN index.byName[identifier]
  ELSE Undefined

\* resolveColumn: the column, or undefined.
resolveColumn(index, identifier) ==
  IF identifier \in DOMAIN index.byId THEN index.byId[identifier]
  ELSE LET key == ToLowerCase(identifier)
       IN IF key \in DOMAIN index.byKey THEN index.byKey[key]
          ELSE IF key \in DOMAIN index.byName THEN index.byName[key]
          ELSE Undefined

\* findColumnByKeyOrName: what the first candidate that resolves resolves to.
RECURSIVE findColumnByKeyOrName(_, _)
findColumnByKeyOrName(index, candidates) ==
  IF candidates = <<>> THEN Undefined
  ELSE LET column == resolveColumn(index, Head(candidates))
       IN IF Truthy(column) THEN column
          ELSE findColumnByKeyOrName(index, Tail(candidates))

\* columns.find(test), for the set of positions that pass the test.
FindFirst(columns, passing) ==
  IF passing = {} THEN Undefined
  ELSE columns[CHOOSE i \in passing : \A k \in passing : i <= k]

\* Mutant of findPrimaryTextColumn: a text column is preferred to the
\* name/title/task candidates.
findPrimaryTextColumnTextFirst(index) ==
  LET columns == Get(index.schema, "columns").v
      primary == FindFirst(columns, {i \in DOMAIN columns :
                                       Truthy(Get(columns[i], "is_primary_column"))})
      byKey == findColumnByKeyOrName(index, <<"name", "title", "task">>)
      textColumn == FindFirst(columns, {i \in DOMAIN columns :
                                          Get(columns[i], "type").v \in {"text", "rich_text"}})
  IN IF Truthy(primary) THEN primary
     ELSE IF Truthy(textColumn) THEN textColumn
     ELSE IF Truthy(byKey) THEN byKey
     ELSE Undefined

findPrimaryTextColumn(index) ==
  LET columns == Get(index.schema, "columns").v
      primary == FindFirst(columns, {i \in DOMAIN columns :
                                       Truthy(Get(columns[i], "is_primary_column"))})
      byKey == findColumnByKeyOrName(index, <<"name", "title", "task">>)
      textColumn == FindFirst(columns, {i \in DOMAIN columns :
                                          Get(columns[i], "type").v \in {"text", "rich_text"}})
  IN IF Truthy(primary) THEN primary
     ELSE IF Truthy(byKey) THEN byKey
     ELSE IF Truthy(textColumn) THEN textColumn
     ELSE Undefined

\* ------------------------------------------------------------------ inputs

\* The list every call of the model resolves.
ListId == "L1"

\* Bound: the number of resolveSchemaIndex calls of a behaviour.
MaxCalls == 3

Procs == {1, 2}

ColA == [id |-> Str("c1"), key |-> Str("status"), name |-> Str("Status"),
         type |-> Str("Select"),
         options |-> Obj([choices |-> Arr(<<Obj([value |-> Str("open")])>>)])]
ColB == [id |-> Str("c2"), name |-> Str(""), type |-> Str("Text")]
ColC == [column_id |-> Str("c1"), name |-> Str("Title"), type |-> Str("text"),
         is_primary_column |-> Bool(TRUE)]

\* Responses of slackLists.info that the web client resolves with.  The client
\* rejects every response whose ok is not true, so a resolved response has it.
InfoResponses ==
  { Obj([ok |-> Bool(TRUE),
         list_metadata |-> Obj([id |-> Str(ListId), schema |-> Arr(<<Obj(ColA)>>)])]),
    Obj([ok |-> Bool(TRUE), list_metadata |-> Obj([columns |-> Arr(<<Obj(ColB)>>)])]),
    Obj([ok |-> Bool(TRUE), list |-> Obj([id |-> Str(ListId)])]) }

FieldStatus == Obj([column_id |-> Str("c1"), key |-> Str("status"),
                    select |-> Arr(<<Str("open")>>)])
FieldText == Obj([column_id |-> Str("c1"), text |-> Str("x")])
FieldTitle == Obj([column_id |-> Str("c2"), key |-> Str("title"), text |-> Str("t")])
FieldBlank == Obj([column_id |-> Str("c2"), key |-> Str("")])
FieldBare == Obj([columnId |-> Str("c3")])
FieldNoId == Obj([key |-> Str("status"), text |-> Str("x")])

\* Responses of slackLists.items.list.
ItemsResponses ==
  { Obj([ok |-> Bool(TRUE), items |-> Arr(<<>>)]),
    Obj([ok |-> Bool(TRUE)]),
    Obj([ok |-> Bool(TRUE), items |-> Arr(<<Obj([id |-> Str("r1"), fields |-> Arr(<<FieldNoId>>)])>>)]),
    Obj([ok |-> Bool(TRUE), items |-> Arr(<<Obj([fields |-> Arr(<<FieldStatus>>)])>>)]),
    Obj([ok |-> Bool(TRUE),
         items |-> Arr(<<Obj([fields |-> Arr(<<FieldText, FieldTitle>>)]),
                         Obj([fields |-> Arr(<<FieldStatus>>)])>>)]),
    Obj([ok |-> Bool(TRUE), items |-> Arr(<<Obj([fields |-> Arr(<<FieldBlank, FieldBare>>)])>>)]) }

\* Errors a remote call rejects with: the platform errors carry data.error.
ErrUnknownMethod == Obj([code |-> Str("slack_webapi_platform_error"),
                         data |-> Obj([ok |-> Bool(FALSE), error |-> Str("unknown_method")])])
ErrListNotFound == Obj([code |-> Str("slack_webapi_platform_error"),
                        data |-> Obj([ok |-> Bool(FALSE), error |-> Str("list_not_found")])])
ErrRequest == Obj([code |-> Str("slack_webapi_request_error")])
RemoteErrors == {ErrUnknownMethod, ErrListNotFound, ErrRequest}

\* Errors of the file system and of JSON.parse.
ErrNoEnt == Obj([code |-> Str("ENOENT")])
ErrAccess == Obj([code |-> Str("EACCES")])
ErrSyntax == Obj([name |-> Str("SyntaxError")])
ErrorOf(message) == Obj([message |-> Str(message)])

\* What reading and parsing the explicit schema file can give.
SchemaFileReads ==
  { Ok(Obj([columns |-> Arr(<<Obj(ColC)>>)])),
    Ok(Obj([list_id |-> Str(ListId)])),
    Throw(ErrNoEnt), Throw(ErrSyntax) }

\* The --schema option and ML_AGENT_SCHEMA_PATH of a call.
PathChoices ==
  { [cli |-> Undefined, env |-> Undefined],
    [cli |-> Undefined, env |-> Str("env.json")],
    [cli |-> Str("schema.json"), env |-> Undefined],
    [cli |-> Str("schema.json"), env |-> Str("env.json")],
    [cli |-> Str(""), env |-> Str("env.json")] }

\* ------------------------------------------------------------------ cache

\* The cache file of the list: missing, text that is no JSON, or the text of
\* a value (held as the value the text parses to).
FileMissing == [t |-> "missing"]
FileMalformed == [t |-> "malformed"]
FileJson(x) == [t |-> "json", v |-> x]
\* An entry left by an earlier run of the tool, which inferred it from one row.
FilePrior ==
  FileJson(JsonRoundTrip(
    inferSchemaFromItems(ListId, <<Obj([fields |-> Arr(<<FieldText>>)])>>)))

\* Mutant of resolveSchemaPath: the environment default is not consulted.
resolveSchemaPathCliOnly(cliPath, envPath) == cliPath

resolveSchemaPath(cliPath, envPath) == Coalesce(cliPath, envPath)

\* Mutant of loadCachedSchema: a file that is no JSON counts as a cache miss.
loadCachedSchemaForgiving(file, denied) ==
  IF denied THEN Throw(ErrAccess)
  ELSE CASE file.t = "json" -> Ok(file.v)
         [] OTHER -> Ok(Null)

\* loadCachedSchema: denied is a read failure other than ENOENT.
loadCachedSchema(file, denied) ==
  IF denied THEN Throw(ErrAccess)
  ELSE CASE file.t = "missing" -> Ok(Null)
         [] file.t = "malformed" -> Throw(ErrSyntax)
         [] OTHER -> Ok(file.v)

\* Mutant of saveSchemaCache: the schema is merged into the entry the file
\* holds instead of replacing it.
saveSchemaCacheMerging(file, schema, denied) ==
  IF denied THEN [file |-> file, result |-> Throw(ErrAccess)]
  ELSE [file |-> FileJson(JsonRoundTrip(
                   mergeSchemas(IF file.t = "json" THEN file.v ELSE Null, schema))),
        result |-> Ok(Undefined)]

\* Mutant of saveSchemaCache: the call reports success without writing.
saveSchemaCacheDropping(file, schema, denied) ==
  IF denied THEN [file |-> file, result |-> Throw(ErrAccess)]
  ELSE [file |-> file, result |-> Ok(Undefined)]

\* saveSchemaCache: the file after the call and what the call gives.  A failed
\* mkdir or open (denied) leaves the file as it was.
saveSchemaCache(file, schema, denied) ==
  IF denied THEN [file |-> file, result |-> Throw(ErrAccess)]
  ELSE [file |-> FileJson(JsonRoundTrip(schema)), result |-> Ok(Undefined)]

\* Mutant of Rethrown: the catch blocks swallow every error.
RethrownNever(error) == FALSE

\* The catch blocks of resolveSchemaIndex: every error but unknown_method is
\* thrown again.
Rethrown(error) == Get(Get(error, "data"), "error") # Str("unknown_method")

\* ------------------------------------------------------------------ state

VARIABLES
  cache,   \* the cache file of ListId
  pc,      \* per process: where its resolveSchemaIndex call stands
  args,    \* per process: schemaPath, ML_AGENT_SCHEMA_PATH and refreshCache
  local,   \* per process: schema, inferred, cached and merged of the call
  ret,     \* per process: what the call gave (an index, undefined, an error)
  log,     \* per process: the file and remote operations the call has issued,
           \* each with what it gave
  cache0,  \* per process: the cache file when the call began
  calls,   \* calls begun so far
  lib      \* the call of a function of lib/schema.ts made on its own: the
           \* function, its arguments and what it gave

vars == <<cache, pc, args, local, ret, log, cache0, calls, lib>>

NoArgs == [schemaPath |-> Undefined, envPath |-> Undefined, refreshCache |-> FALSE]
NoLocal == [schema |-> Undefined, inferred |-> Undefined, cached |-> Undefined,
            merged |-> Undefined]
Pending == [kind |-> "pending"]
Returned(x) == [kind |-> "return", value |-> x]
Thrown(e) == [kind |-> "throw", error |-> e]
\* An entry of log: the operation and its outcome (Ok(value) or Throw(error)).
Io(op, outcome) == [op |-> op, outcome |-> outcome]
\* No function of lib/schema.ts has been called on its own.
NoLib == [fn |-> "none"]
\* A returned SchemaIndex is held as a value of kind index.
IndexOf(schema) == [kind |-> "index", index |-> buildSchemaIndex(schema)]

Init ==
  /\ cache \in {FileMissing, FileMalformed, FilePrior}
  /\ pc = [p \in Procs |-> "idle"]
  /\ args = [p \in Procs |-> NoArgs]
  /\ local = [p \in Procs |-> NoLocal]
  /\ ret = [p \in Procs |-> Pending]
  /\ log = [p \in Procs |-> <<>>]
  /\ cache0 = [p \in Procs |-> FileMissing]
  /\ calls = 0
  /\ lib = NoLib

\* Mutant of FirstStep: refreshCache does not bypass the cache load.
FirstStepIgnoringRefresh(resolvedPath, refreshCache) ==
  IF Truthy(resolvedPath) THEN "file" ELSE "cache"

\* Where the call goes after resolveSchemaPath (lines 59-70).
FirstStep(resolvedPath, refreshCache) ==
  IF Truthy(resolvedPath) THEN "file"
  ELSE IF ~refreshCache THEN "cache" ELSE "info"

\* A command calls resolveSchemaIndex(client, listId, schemaPath, refreshCache).
ResolveStart(p) ==
  /\ pc[p] = "idle"
  /\ calls < MaxCalls
  /\ \E path \in PathChoices, refreshCache \in BOOLEAN :
       /\ args' = [args EXCEPT ![p] = [schemaPath |-> path.cli, envPath |-> path.env,
                                      refreshCache |-> refreshCache]]
       /\ pc' = [pc EXCEPT ![p] =
                   FirstStep(resolveSchemaPath(path.cli, path.env), refreshCache)]
  /\ cache0' = [cache0 EXCEPT ![p] = cache]
  /\ calls' = calls + 1
  /\ UNCHANGED <<cache, local, ret, log, lib>>

\* loadSchemaFromFile: read, parse, normalize; then the index is returned.
loadSchemaFromFile(read) ==
  IF ~read.ok THEN Throw(read.error)
  ELSE LET n == normalizeSchema(read.value)
       IN IF n.ok THEN Ok(n.value) ELSE Throw(ErrorOf(n.error))

LoadSchemaFile(p) ==
  /\ pc[p] = "file"
  /\ \E read \in SchemaFileReads :
       LET schema == loadSchemaFromFile(read)
       IN /\ ret' = [ret EXCEPT ![p] = IF schema.ok THEN IndexOf(schema.value)
                                       ELSE Thrown(schema.error)]
          /\ log' = [log EXCEPT ![p] = Append(@, Io("schemaFile.read", read))]
  /\ pc' = [pc EXCEPT ![p] = "done"]
  /\ UNCHANGED <<cache, args, local, cache0, calls, lib>>

\* Step 2: loadCachedSchema, and the index over the entry when there is one.
LoadCached(p) ==
  /\ pc[p] = "cache"
  /\ \E denied \in BOOLEAN :
       LET cached == loadCachedSchema(cache, denied)
       IN /\ ret' = [ret EXCEPT ![p] =
                       IF ~cached.ok THEN Thrown(cached.error)
                       ELSE IF Truthy(cached.value) THEN IndexOf(cached.value)
                       ELSE Pending]
          /\ pc' = [pc EXCEPT ![p] =
                      IF cached.ok /\ ~Truthy(cached.value) THEN "info" ELSE "done"]
          /\ log' = [log EXCEPT ![p] = Append(@, Io("cache.read", cached))]
  /\ UNCHANGED <<cache, args, local, cache0, calls, lib>>

\* Step 3 up to the save: what the call does with the outcome of
\* client.call("slackLists.info").  next is "save" (schema normalized),
\* "items" (go on to step 4) or "throw".
AfterInfo(outcome) ==
  IF outcome.ok
  THEN IF Truthy(Get(outcome.value, "ok"))
       THEN LET n == normalizeSchema(outcome.value)
            IN IF n.ok THEN [next |-> "save", schema |-> n.value, error |-> Undefined]
               ELSE IF Rethrown(ErrorOf(n.error))
               THEN [next |-> "throw", schema |-> Undefined, error |-> ErrorOf(n.error)]
               ELSE [next |-> "items", schema |-> Undefined, error |-> Undefined]
       ELSE [next |-> "items", schema |-> Undefined, error |-> Undefined]
  ELSE IF Rethrown(outcome.error)
       THEN [next |-> "throw", schema |-> Undefined, error |-> outcome.error]
       ELSE [next |-> "items", schema |-> Undefined, error |-> Undefined]

CallInfo(p) ==
  /\ pc[p] = "info"
  /\ \E outcome \in {Ok(r) : r \in InfoResponses} \cup {Throw(e) : e \in RemoteErrors} :
       LET a == AfterInfo(outcome)
       IN /\ pc' = [pc EXCEPT ![p] = CASE a.next = "save" -> "saveInfo"
                                       [] a.next = "items" -> "items"
                                       [] OTHER -> "done"]
          /\ local' = [local EXCEPT ![p].schema = a.schema]
          /\ ret' = [ret EXCEPT ![p] = IF a.next = "throw" THEN Thrown(a.error) ELSE @]
          /\ log' = [log EXCEPT ![p] = Append(@, Io("slackLists.info", outcome))]
  /\ UNCHANGED <<cache, args, cache0, calls, lib>>

\* Mutant of AfterInfoSave: the return after the save is missing, so the call
\* goes on to step 4.
AfterInfoSaveFallingThrough(schema, saved) ==
  IF saved.ok THEN [next |-> "items", ret |-> Pending]
  ELSE [next |-> "done", ret |-> Thrown(saved.error)]

\* Step 3, the save (lines 76-84): the error of a failed save is caught by
\* the catch of the try block it is in.
AfterInfoSave(schema, saved) ==
  IF saved.ok THEN [next |-> "done", ret |-> IndexOf(schema)]
  ELSE IF Rethrown(saved.error) THEN [next |-> "done", ret |-> Thrown(saved.error)]
  ELSE [next |-> "items", ret |-> Pending]

SaveInfo(p) ==
  /\ pc[p] = "saveInfo"
  /\ \E denied \in BOOLEAN :
       LET s == saveSchemaCache(cache, local[p].schema, denied)
           a == AfterInfoSave(local[p].schema, s.result)
       IN /\ cache' = s.file
          /\ pc' = [pc EXCEPT ![p] = a.next]
          /\ ret' = [ret EXCEPT ![p] = a.ret]
          /\ log' = [log EXCEPT ![p] = Append(@, Io("cache.write", s.result))]
  /\ UNCHANGED <<args, local, cache0, calls, lib>>

\* Mutant of AfterItems: the catch of step 4 swallows every error.
AfterItemsSwallowing(outcome) ==
  IF outcome.ok
  THEN LET inferred == inferSchemaFromItems(ListId,
                         Coalesce(Get(outcome.value, "items"), Arr(<<>>)).v)
       IN IF Len(Get(inferred, "columns").v) = 0
          THEN [next |-> "done", inferred |-> Undefined, ret |-> Returned(Undefined)]
          ELSE [next |-> "update", inferred |-> inferred, ret |-> Pending]
  ELSE [next |-> "done", inferred |-> Undefined, ret |-> Returned(Undefined)]

\* Mutant of AfterItems: an inferred schema with no column is merged too.
AfterItemsMergingEmpty(outcome) ==
  IF outcome.ok
  THEN [next |-> "update",
        inferred |-> inferSchemaFromItems(ListId,
                       Coalesce(Get(outcome.value, "items"), Arr(<<>>)).v),
        ret |-> Pending]
  ELSE IF Rethrown(outcome.error)
       THEN [next |-> "done", inferred |-> Undefined, ret |-> Thrown(outcome.error)]
       ELSE [next |-> "done", inferred |-> Undefined, ret |-> Returned(Undefined)]

\* Step 4 up to updateSchemaCache: what the call does with the outcome of
\* client.call("slackLists.items.list").
AfterItems(outcome) ==
  IF outcome.ok
  THEN LET items == Coalesce(Get(outcome.value, "items"), Arr(<<>>))
           inferred == inferSchemaFromItems(ListId, items.v)
       IN IF Len(Get(inferred, "columns").v) = 0
          THEN [next |-> "done", inferred |-> Undefined, ret |-> Returned(Undefined)]
          ELSE [next |-> "update", inferred |-> inferred, ret |-> Pending]
  ELSE IF Rethrown(outcome.error)
       THEN [next |-> "done", inferred |-> Undefined, ret |-> Thrown(outcome.error)]
       ELSE [next |-> "done", inferred |-> Undefined, ret |-> Returned(Undefined)]

CallItems(p) ==
  /\ pc[p] = "items"
  /\ \E outcome \in {Ok(r) : r \in ItemsResponses} \cup {Throw(e) : e \in RemoteErrors} :
       LET a == AfterItems(outcome)
       IN /\ pc' = [pc EXCEPT ![p] = IF a.next = "update" THEN "updateLoad" ELSE "done"]
          /\ local' = [local EXCEPT ![p].inferred = a.inferred]
          /\ ret' = [ret EXCEPT ![p] = a.ret]
          /\ log' = [log EXCEPT ![p] = Append(@, Io("slackLists.items.list", outcome))]
  /\ UNCHANGED <<cache, args, cache0, calls, lib>>

\* Mutant of UpdateLoad: a refreshing call merges into no entry.
UpdateLoadFreshOnRefresh(p) ==
  /\ pc[p] = "updateLoad"
  /\ \E denied \in BOOLEAN :
       LET cached == IF args[p].refreshCache /\ ~denied THEN Ok(Null)
                     ELSE loadCachedSchema(cache, denied)
       IN /\ IF cached.ok
             THEN /\ local' = [local EXCEPT ![p].cached = cached.value,
                                            ![p].merged = mergeSchemas(cached.value,
                                                                       local[p].inferred)]
                  /\ pc' = [pc EXCEPT ![p] = "updateSave"]
                  /\ ret' = ret
             ELSE /\ local' = local
                  /\ pc' = [pc EXCEPT ![p] = "done"]
                  /\ ret' = [ret EXCEPT ![p] =
                               IF Rethrown(cached.error) THEN Thrown(cached.error)
                               ELSE Returned(Undefined)]
          /\ log' = [log EXCEPT ![p] = Append(@, Io("cache.read", cached))]
  /\ UNCHANGED <<cache, args, cache0, calls, lib>>

\* updateSchemaCache, first half: load the entry and merge (lines 49-50).
UpdateLoad(p) ==
  /\ pc[p] = "updateLoad"
  /\ \E denied \in BOOLEAN :
       LET cached == loadCachedSchema(cache, denied)
       IN /\ IF cached.ok
             THEN /\ local' = [local EXCEPT ![p].cached = cached.value,
                                            ![p].merged = mergeSchemas(cached.value,
                                                                       local[p].inferred)]
                  /\ pc' = [pc EXCEPT ![p] = "updateSave"]
                  /\ ret' = ret
             ELSE /\ local' = local
                  /\ pc' = [pc EXCEPT ![p] = "done"]
                  /\ ret' = [ret EXCEPT ![p] =
                               IF Rethrown(cached.error) THEN Thrown(cached.error)
                               ELSE Returned(Undefined)]
          /\ log' = [log EXCEPT ![p] = Append(@, Io("cache.read", cached))]
  /\ UNCHANGED <<cache, args, cache0, calls, lib>>

\* updateSchemaCache, second half: save the merged schema (lines 51-52), and
\* the return of the index over it (line 97).
UpdateSave(p) ==
  /\ pc[p] = "updateSave"
  /\ \E denied \in BOOLEAN :
       LET s == saveSchemaCache(cache, local[p].merged, denied)
       IN /\ cache' = s.file
          /\ ret' = [ret EXCEPT ![p] =
                       IF s.result.ok THEN IndexOf(local[p].merged)
                       ELSE IF Rethrown(s.result.error) THEN Thrown(s.result.error)
                       ELSE Returned(Undefined)]
          /\ log' = [log EXCEPT ![p] = Append(@, Io("cache.write", s.result))]
  /\ pc' = [pc EXCEPT ![p] = "done"]
  /\ UNCHANGED <<args, local, cache0, calls, lib>>

\* The command has ended; the tool is run again (a new process takes the place
\* of the one that exited).
Finish(p) ==
  /\ pc[p] = "done"
  /\ pc' = [pc EXCEPT ![p] = "idle"]
  /\ args' = [args EXCEPT ![p] = NoArgs]
  /\ local' = [local EXCEPT ![p] = NoLocal]
  /\ ret' = [ret EXCEPT ![p] = Pending]
  /\ log' = [log EXCEPT ![p] = <<>>]
  /\ cache0' = [cache0 EXCEPT ![p] = FileMissing]
  /\ UNCHANGED <<cache, calls, lib>>

Step(p) ==
  \/ ResolveStart(p)
  \/ LoadSchemaFile(p)
  \/ LoadCached(p)
  \/ CallInfo(p)
  \/ SaveInfo(p)
  \/ CallItems(p)
  \/ UpdateLoad(p)
  \/ UpdateSave(p)

\* Two processes of the tool, each running one command, their calls
\* interleaved at every await.
Next == \E p \in Procs : Step(p)

Spec == Init /\ [][Next]_vars

\* Runs of the tool one after another: a call begins only while no other
\* process is in one.
SeqStart(p) ==
  /\ \A q \in Procs \ {p} : pc[q] = "idle"
  /\ ResolveStart(p)

NextSeq ==
  \E p \in Procs :
    \/ SeqStart(p)
    \/ LoadSchemaFile(p)
    \/ LoadCached(p)
    \/ CallInfo(p)
    \/ SaveInfo(p)
    \/ CallItems(p)
    \/ UpdateLoad(p)
    \/ UpdateSave(p)
    \/ Finish(p)

SpecSeq == Init /\ [][NextSeq]_vars

\* ----------------------------------------------------------- library calls

\* Bound: the number of columns of a schema handed to a function of
\* lib/schema.ts that is called on its own.
MaxColumns == 2

\* The variables of resolveSchemaIndex, which a library call leaves alone.
resolveVars == <<cache, pc, args, local, ret, log, cache0, calls>>

\* All sequences over S of at most n elements.
SeqsUpTo(S, n) == UNION {[1..k -> S] : k \in 0..n}

Choices == Obj([choices |-> Arr(<<Obj([value |-> Str("open")])>>)])

\* ListColumn values of an id: with a key and nothing else known, with a type
\* and options and nothing else known, with everything known, with nothing
\* known and an empty name.
ColKeyed(id) == Obj([id |-> Str(id), key |-> Str("status"), name |-> Str(id),
                     type |-> Str("unknown")])
ColTyped(id) == Obj([id |-> Str(id), name |-> Str(id), type |-> Str("select"),
                     options |-> Choices])
ColKnown(id) == Obj([id |-> Str(id), key |-> Str("state"), name |-> Str("Status"),
                     type |-> Str("text"), options |-> Obj([format |-> Str("plain")])])
ColBlank(id) == Obj([id |-> Str(id), key |-> Undefined, name |-> Str(""),
                     type |-> Str("unknown")])
MergeColumns ==
  {ColKeyed("c1"), ColTyped("c1"), ColKnown("c1"), ColBlank("c1"),
   ColKeyed("c2"), ColKnown("c2")}

\* ListSchema values: any column list, a repeated id included (neither the
\* type nor normalizeSchema excludes it).
MergeSchemas ==
  {Obj([list_id |-> Str(ListId), columns |-> Arr(columns)]) :
     columns \in SeqsUpTo(MergeColumns, MaxColumns)}

\* A call mergeSchemas(base, incoming); out is the schema returned and
\* incoming.columns as the call leaves them.
LibMerge(fn, base, incoming) ==
  [fn |-> fn, base |-> base, incoming |-> incoming, out |-> MergeRun(base, incoming)]

CallMerge ==
  /\ lib.fn = "none"
  /\ \E base \in MergeSchemas \cup {Null}, incoming \in MergeSchemas :
       lib' = LibMerge("mergeSchemas", base, incoming)
  /\ UNCHANGED resolveVars

\* The caller merges the same incoming object into the result once more.
CallMergeAgain ==
  /\ lib.fn = "mergeSchemas"
  /\ lib' = LibMerge("mergeSchemas.again", lib.out.result,
                     Put(lib.incoming, "columns", Arr(lib.out.incoming)))
  /\ UNCHANGED resolveVars

\* The caller merges the schema that was the base into the result.
CallMergeEarlier ==
  /\ lib.fn = "mergeSchemas"
  /\ Truthy(lib.base)
  /\ lib' = LibMerge("mergeSchemas.earlier", lib.out.result, lib.base)
  /\ UNCHANGED resolveVars

\* The ids of the columns of a schema whose ids are distinct, by position.
ColumnIds == <<"c1", "c2", "c3", "c4">>
\* The columns with the id of their position.
Numbered(columns) ==
  [i \in DOMAIN columns |-> Put(columns[i], "id", Str(ColumnIds[i]))]

\* ListColumn values to look up, the id left out: a key or none, a name.
LookupColumns ==
  {Obj([key |-> key, name |-> Str(name), type |-> Str("text")]) :
     key \in {Undefined, Str("status"), Str("Status"), Str("c2"), Str("Task")},
     name \in {"c1", "Status", "STATUS", "title", "Name"}}
LookupSchemas ==
  {Obj([list_id |-> Str(ListId), columns |-> Arr(Numbered(columns))]) :
     columns \in SeqsUpTo(LookupColumns, MaxColumns)}
\* What a caller passes as identifier: never the empty string.
Identifiers ==
  {"c1", "C1", "c2", "status", "Status", "STATUS", "title", "Title", "task", "Task",
   "name", "Name", "zzz"}

\* A command looks a column up in the index built over a schema.
CallResolveColumn ==
  /\ lib.fn = "none"
  /\ \E schema \in LookupSchemas, identifier \in Identifiers :
       lib' = [fn |-> "resolveColumn", schema |-> schema, identifier |-> identifier,
               out |-> resolveColumn(buildSchemaIndex(schema), identifier)]
  /\ UNCHANGED resolveVars

\* ListColumn values to pick the primary text column from, the id left out:
\* flagged or not, with or without a key or name among name, title and task,
\* of a text type or not.
PrimaryColumns ==
  {Obj([key |-> h.key, name |-> Str(h.name), type |-> Str(type),
        is_primary_column |-> Bool(primary)]) :
     h \in {[key |-> Undefined, name |-> "Status"], [key |-> Str("title"), name |-> "Status"],
            [key |-> Undefined, name |-> "Name"], [key |-> Str("task"), name |-> "Title"]},
     type \in {"text", "rich_text", "select"},
     primary \in BOOLEAN}
PrimarySchemas ==
  {Obj([list_id |-> Str(ListId), columns |-> Arr(Numbered(columns))]) :
     columns \in SeqsUpTo(PrimaryColumns, MaxColumns)}

\* A command asks for the column that holds the item name.
CallFindPrimaryTextColumn ==
  /\ lib.fn = "none"
  /\ \E schema \in PrimarySchemas :
       lib' = [fn |-> "findPrimaryTextColumn", schema |-> schema,
               out |-> findPrimaryTextColumn(buildSchemaIndex(schema))]
  /\ UNCHANGED resolveVars

\* Bound: the number of fields of the rows handed to inferSchemaFromItems.
MaxFields == 3

\* Values found in the fields array of a row: fields of a column id and a
\* type hint, with or without a key, a field of two hints, fields without a
\* column id, and values that are no object.
FieldRich == Obj([column_id |-> Str("c2"), text |-> Str("x"),
                  rich_text |-> Arr(<<>>), key |-> Bool(TRUE),
                  options |-> Obj([choices |-> Arr(<<Obj([value |-> Str("open")])>>)])])
FieldEmptyId == Obj([column_id |-> Str(""), columnId |-> Str("c3"), text |-> Str("x")])
FieldValues ==
  {FieldStatus, FieldText, FieldTitle, FieldBlank, FieldBare, FieldRich, FieldNoId,
   FieldEmptyId, Null, Str("c1")}

\* The items of a listing: the fields in two rows, cut at split; padded puts
\* items around them that are no row with a fields array.
RowsOf(fields, split, padded) ==
  LET first == Obj([id |-> Str("r1"), fields |-> Arr(SubSeq(fields, 1, split))])
      second == Obj([id |-> Str("r2"),
                     fields |-> Arr(SubSeq(fields, split + 1, Len(fields)))])
  IN IF padded
     THEN <<Null, first, Obj([id |-> Str("r0")]), second,
            Obj([id |-> Str("r3"), fields |-> Str("c3")]), Str("c3")>>
     ELSE <<first, second>>

\* A command infers a schema from the items of a listing.
CallInferSchemaFromItems ==
  /\ lib.fn = "none"
  /\ \E fields \in SeqsUpTo(FieldValues, MaxFields), padded \in BOOLEAN :
       \E split \in 0..Len(fields) :
         lib' = [fn |-> "inferSchemaFromItems", fields |-> fields, split |-> split,
                 padded |-> padded,
                 out |-> inferSchemaFromItems(ListId, RowsOf(fields, split, padded))]
  /\ UNCHANGED resolveVars

\* Raw type values of a column entry: strings of the allow-list in several
\* letter cases, strings outside it, values that are no string, and none.
RawTypes ==
  {Str("text"), Str("Text"), Str("SELECT"), Str("Rich_Text"), Str("todo_due_date"),
   Str("formula"), Str("Formula"), Str(""), Bool(TRUE), Null,
   Arr(<<Str("text")>>), Obj([name |-> Str("text")]), Undefined}
\* Raw column entries of a payload, with the type property or without it.
RawColumns ==
  {IF type = Undefined THEN Obj([id |-> Str(id), name |-> Str("Status")])
   ELSE Obj([id |-> Str(id), name |-> Str("Status"), type |-> type]) :
     id \in {"c1", "c2"}, type \in RawTypes}
\* Payloads: the column list at the top level or in the list_metadata wrapper.
RawPayloads ==
  {Obj([list_id |-> Str(ListId), columns |-> Arr(columns)]) :
     columns \in SeqsUpTo(RawColumns, MaxColumns)}
  \cup
  {Obj([list_metadata |-> Obj([id |-> Str(ListId), schema |-> Arr(columns)])]) :
     columns \in SeqsUpTo(RawColumns, MaxColumns)}

\* A command normalizes a payload (a schema file, a slackLists.info response).
CallNormalizeSchema ==
  /\ lib.fn = "none"
  /\ \E data \in RawPayloads :
       lib' = [fn |-> "normalizeSchema", data |-> data, out |-> normalizeSchema(data)]
  /\ UNCHANGED resolveVars

\* Column entries of a schema file: with the id under each of its names, with
\* properties of the wrong type, without an id, and values that are no object.
FileEntries ==
  {Obj(ColA), Obj(ColC),
   Obj([column_id |-> Str("c2"), name |-> Str(""), type |-> Str("formula"),
        options |-> Null]),
   Obj([columnId |-> Str("c3"), key |-> Bool(TRUE), options |-> Str("x"),
        is_primary_column |-> Str("yes")]),
   Obj([id |-> Null, column_id |-> Str("c1"), name |-> Bool(TRUE),
        options |-> Arr(<<>>)]),
   Obj([id |-> Bool(TRUE), key |-> Str("status")]),
   Obj([name |-> Str("Status"), type |-> Str("text")]),
   Obj([id |-> Str(""), column_id |-> Str("c1")]),
   Null, Str("c1")}

\* The payloads of a schema file that holds the entries in one place: at the
\* top level, in the wrapper, beside lists in places of less or more priority,
\* beside values that are no list, or where no list is looked for.
FilePayloadsOf(entries) ==
  LET list == Arr(entries)
      other == Arr(<<Obj(ColA), Obj(ColC), Obj(ColB)>>)
  IN {Obj([list_id |-> Bool(TRUE), listId |-> Str(ListId), columns |-> list]),
      Obj([listId |-> Str(ListId), schema |-> list, columns |-> other]),
      Obj([list_metadata |-> Obj([id |-> Str(ListId), schema |-> list, columns |-> other]),
           list_id |-> Str("L2"), schema |-> other, columns |-> other]),
      Obj([list_metadata |-> Obj([schema |-> Null, columns |-> list]),
           list_id |-> Str(ListId), schema |-> other]),
      Obj([list_metadata |-> Obj([schema |-> Obj([c1 |-> Str("text")]), columns |-> other]),
           columns |-> list]),
      Obj([list_metadata |-> Str("x"), schema |-> list]),
      Obj([list_metadata |-> Null, schema |-> Str("x"), columns |-> list]),
      Obj([list_metadata |-> Obj([id |-> Str(ListId)]), items |-> list]),
      Obj([list_id |-> Str(ListId), schema |-> Obj([columns |-> list])])}

\* A command loads the schema file it was given.
CallLoadSchemaFromFile ==
  /\ lib.fn = "none"
  /\ \E entries \in SeqsUpTo(FileEntries, MaxColumns) :
       \E data \in FilePayloadsOf(entries) :
         lib' = [fn |-> "loadSchemaFromFile", data |-> data,
                 out |-> loadSchemaFromFile(Ok(data))]
  /\ UNCHANGED resolveVars

\* The schema a load or a normalization gave is written out as JSON, read
\* back and normalized again.
CallNormalizeSchemaAgain ==
  /\ lib.fn \in {"loadSchemaFromFile", "normalizeSchema"}
  /\ lib.out.ok
  /\ lib' = [fn |-> "normalizeSchema.again", data |-> lib.data,
             first |-> lib.out.value,
             out |-> normalizeSchema(JsonRoundTrip(lib.out.value))]
  /\ UNCHANGED resolveVars

\* ---------------------------------------------------------- field encoding
\* The strings a field is encoded from are sequences of characters.

UpperCase == <<"A", "B", "C", "D", "E", "F", "G", "H", "I", "J", "K", "L", "M",
               "N", "O", "P", "Q", "R", "S", "T", "U", "V", "W", "X", "Y", "Z">>
LowerCase == <<"a", "b", "c", "d", "e", "f", "g", "h", "i", "j", "k", "l", "m",
               "n", "o", "p", "q", "r", "s", "t", "u", "v", "w", "x", "y", "z">>

\* value.toLowerCase(), character by character.
LowerChars(value) ==
  [i \in DOMAIN value |->
     IF \E k \in DOMAIN UpperCase : UpperCase[k] = value[i]
     THEN LowerCase[CHOOSE k \in DOMAIN UpperCase : UpperCase[k] = value[i]]
     ELSE value[i]]

\* value.trim().
Trim(value) ==
  LET inked == {i \in DOMAIN value : value[i] # " "}
  IN IF inked = {} THEN <<>>
     ELSE SubSeq(value, CHOOSE i \in inked : \A k \in inked : i <= k,
                        CHOOSE i \in inked : \A k \in inked : k <= i)

\* value.split(",").
RECURSIVE SplitOnCommas(_)
SplitOnCommas(value) ==
  LET commas == {i \in DOMAIN value : value[i] = ","}
  IN IF commas = {} THEN <<value>>
     ELSE LET first == CHOOSE i \in commas : \A k \in commas : i <= k
          IN <<SubSeq(value, 1, first - 1)>>
               \o SplitOnCommas(SubSeq(value, first + 1, Len(value)))

splitList(value) ==
  LET entries == SplitOnCommas(value)
      trimmed == [i \in DOMAIN entries |-> Trim(entries[i])]
  IN SelectSeq(trimmed, LAMBDA entry : entry # <<>>)

\* Mutant of parseBoolean: the value is compared in the case it is written in.
parseBooleanExactCase(value) ==
  Trim(value) \in {<<"t", "r", "u", "e">>, <<"y", "e", "s">>, <<"1">>,
                   <<"c", "o", "m", "p", "l", "e", "t", "e", "d">>,
                   <<"d", "o", "n", "e">>}

parseBoolean(value) ==
  LowerChars(Trim(value)) \in {<<"t", "r", "u", "e">>, <<"y", "e", "s">>, <<"1">>,
                               <<"c", "o", "m", "p", "l", "e", "t", "e", "d">>,
                               <<"d", "o", "n", "e">>}

\* Mutant of resolveSelectValue: a choice matches by its value only.
resolveSelectValueByValue(choices, input) ==
  LET normalized == LowerChars(input)
      matches == {i \in DOMAIN choices :
                    LowerChars(Get(choices[i], "value").v) = normalized}
  IN IF matches = {} THEN input
     ELSE Get(choices[CHOOSE i \in matches : \A k \in matches : i <= k], "value").v

resolveSelectValue(choices, input) ==
  LET normalized == LowerChars(input)
      matches == {i \in DOMAIN choices :
                    \/ LowerChars(Get(choices[i], "value").v) = normalized
                    \/ /\ Get(choices[i], "label").t = "string"
                       /\ LowerChars(Get(choices[i], "label").v) = normalized}
  IN IF matches = {} THEN input
     ELSE Get(choices[CHOOSE i \in matches : \A k \in matches : i <= k], "value").v

resolveSelectValues(column, rawValue) ==
  LET values == splitList(rawValue)
      choices == Coalesce(Get(Get(column, "options"), "choices"), Arr(<<>>)).v
  IN IF Len(choices) = 0 THEN values
     ELSE [i \in DOMAIN values |-> resolveSelectValue(choices, values[i])]

buildRichText(text) ==
  Arr(<<Obj([type |-> Str("rich_text"),
             elements |-> Arr(<<Obj([type |-> Str("rich_text_section"),
                                     elements |-> Arr(<<Obj([type |-> Str("text"),
                                                             text |-> Str(text)])>>)])>>)])>>)

\* The list of strings a field holds.
Strings(values) == Arr([i \in DOMAIN values |-> Str(values[i])])

\* buildTypedField, for the column types that are encoded without a remote
\* call, a number or a link.
buildTypedField(column, rawValue) ==
  LET type == Get(column, "type").v
  IN CASE type \in {"text", "rich_text"} -> Obj([rich_text |-> buildRichText(rawValue)])
       [] type = "select" -> Obj([select |-> Strings(resolveSelectValues(column, rawValue))])
       [] type \in {"date", "todo_due_date"} -> Obj([date |-> Strings(splitList(rawValue))])
       [] type \in {"checkbox", "todo_completed"} -> Obj([checkbox |-> Bool(parseBoolean(rawValue))])
       [] type = "attachment" -> Obj([attachment |-> Strings(splitList(rawValue))])
       [] type = "message" -> Obj([message |-> Strings(splitList(rawValue))])
       [] OTHER -> Obj([rich_text |-> buildRichText(rawValue)])

\* The longest raw value of a select field, in characters.
MaxRaw == 4

\* The characters the raw value of a select field is written with.
SelectChars == {",", " ", "h", "H", "u"}

\* The choices of a select column: none, and lists in which a token is met by
\* a value, by a label, by a value in another case, and by the label of one
\* choice and the value of a later one.
ChoiceH == Obj([value |-> Str(<<"h">>), label |-> Str(<<"H", "u">>)])
ChoiceLoud == Obj([value |-> Str(<<"H", "U">>)])
ChoiceU == Obj([value |-> Str(<<"u">>), label |-> Str(<<"h">>), color |-> Str(<<"u">>)])
ChoiceLists == {<<>>, <<ChoiceH>>, <<ChoiceLoud>>, <<ChoiceU, ChoiceH>>}

SelectColumns ==
  {Obj([id |-> Str("c1"), name |-> Str("Status"), type |-> Str("select")]),
   Obj([id |-> Str("c1"), name |-> Str("Status"), type |-> Str("select"),
        options |-> Null]),
   Obj([id |-> Str("c1"), name |-> Str("Status"), type |-> Str("select"),
        options |-> Obj([format |-> Str("x")])])}
  \cup {Obj([id |-> Str("c1"), name |-> Str("Status"), type |-> Str("select"),
             options |-> Obj([choices |-> Arr(choices)])]) : choices \in ChoiceLists}

\* The raw values of a checkbox field: the five words in several cases, with
\* blanks around them, and other values.
BooleanInputs ==
  {<<"t", "r", "u", "e">>, <<"T", "r", "u", "e">>, <<"T", "R", "U", "E">>,
   <<"y", "e", "s">>, <<"Y", "E", "S">>, <<"1">>,
   <<"c", "o", "m", "p", "l", "e", "t", "e", "d">>,
   <<"C", "o", "m", "p", "l", "e", "t", "e", "d">>,
   <<"d", "o", "n", "e">>, <<"D", "o", "n", "e">>, <<"D", "O", "N", "E">>,
   <<" ", "d", "o", "n", "e">>, <<"y", "e", "s", " ">>, <<" ", "1", " ">>,
   <<"n", "o", "p", "e">>, <<>>, <<" ">>, <<"0">>, <<"n", "o">>,
   <<"f", "a", "l", "s", "e">>, <<"y">>, <<"o", "n">>, <<"t">>,
   <<"d", "o", " ", "n", "e">>, <<"d", "o", "n", "e", ",">>,
   <<"d", "o", "n", "e", ",", "y", "e", "s">>, <<"d", "o", "n", "e", ".">>,
   <<"t", "r", "u", "e", "e">>, <<"1", "1">>, <<"c", "o", "m", "p", "l", "e", "t", "e">>}

CheckboxColumns ==
  {Obj([id |-> Str("c1"), name |-> Str("Done"), type |-> Str(type)]) :
     type \in {"checkbox", "todo_completed"}}

\* A command encodes the value given for a select column.
CallBuildSelectField ==
  /\ lib.fn = "none"
  /\ \E column \in SelectColumns : \E rawValue \in SeqsUpTo(SelectChars, MaxRaw) :
       lib' = [fn |-> "buildTypedField", column |-> column, rawValue |-> rawValue,
               out |-> Ok(buildTypedField(column, rawValue))]
  /\ UNCHANGED resolveVars

\* A command encodes the value given for a checkbox column.
CallBuildCheckboxField ==
  /\ lib.fn = "none"
  /\ \E column \in CheckboxColumns : \E rawValue \in BooleanInputs :
       lib' = [fn |-> "buildTypedField", column |-> column, rawValue |-> rawValue,
               out |-> Ok(buildTypedField(column, rawValue))]
  /\ UNCHANGED resolveVars

\* ------------------------------------------------------------ column picks

findColumnByType(index, types) ==
  LET columns == Get(index.schema, "columns").v
  IN FindFirst(columns, {i \in DOMAIN columns : Get(columns[i], "type").v \in types})

\* Mutant of pickSelectColumn: the first select column is taken, however many
\* there are.
pickSelectColumnFirst(index, label, keys) ==
  LET byKey == findColumnByKeyOrName(index, keys)
  IN IF Truthy(byKey) THEN Ok(byKey) ELSE Ok(findColumnByType(index, {"select"}))

pickSelectColumn(index, label, keys) ==
  LET byKey == findColumnByKeyOrName(index, keys)
      columns == Get(index.schema, "columns").v
      selects == SelectSeq(columns, LAMBDA column : Get(column, "type") = Str("select"))
  IN IF Truthy(byKey) THEN Ok(byKey)
     ELSE IF Len(selects) = 1 THEN Ok(selects[1])
     ELSE IF Len(selects) > 1
     THEN Throw(ErrorOf("Multiple select columns found; specify --field with column key for "
                          \o label \o "."))
     ELSE Ok(Undefined)

resolveStatusColumn(index) ==
  LET todoCompleted == findColumnByType(index, {"todo_completed"})
  IN IF Truthy(todoCompleted) THEN Ok(todoCompleted)
     ELSE pickSelectColumn(index, "status", <<"status", "state">>)

resolvePriorityColumn(index) == pickSelectColumn(index, "priority", <<"priority">>)

\* The step of the create and update commands for --priority and --status:
\* the column is resolved, and a command without one fails.
OptionColumn(resolved, what) ==
  IF ~resolved.ok THEN resolved
  ELSE IF ~Truthy(resolved.value)
  THEN Throw(ErrorOf("Unable to resolve " \o what \o " column from schema"))
  ELSE resolved

\* allowedTypes.join("/").
RECURSIVE JoinTypes(_)
JoinTypes(types) ==
  IF Len(types) = 0 THEN ""
  ELSE IF Len(types) = 1 THEN types[1]
  ELSE types[1] \o "/" \o JoinTypes(Tail(types))

\* The types of a list of types.
Range(types) == {types[i] : i \in DOMAIN types}

\* Mutant of resolveEvidenceColumn: the column the reference resolves to is
\* returned whatever its type.
resolveEvidenceColumnAnyType(schemaIndex, columnArg, fallbackType, allowedTypes) ==
  IF schemaIndex # Undefined
  THEN IF Truthy(columnArg)
       THEN LET resolved == resolveColumn(schemaIndex.index, columnArg.v)
            IN IF ~Truthy(resolved)
               THEN Throw(ErrorOf("Unknown column: " \o columnArg.v))
               ELSE Ok(resolved)
       ELSE LET inferred == findColumnByType(schemaIndex.index, Range(allowedTypes))
            IN IF ~Truthy(inferred)
               THEN Throw(ErrorOf("No evidence column found in schema. Provide --column."))
               ELSE Ok(inferred)
  ELSE IF ~Truthy(columnArg)
  THEN Throw(ErrorOf("Schema required or provide --column and --column-type."))
  ELSE Ok(Obj([id |-> columnArg, name |-> columnArg, type |-> Str(fallbackType)]))

\* resolveEvidenceColumn: schemaIndex is an index, or undefined.
resolveEvidenceColumn(schemaIndex, columnArg, fallbackType, allowedTypes) ==
  IF schemaIndex # Undefined
  THEN IF Truthy(columnArg)
       THEN LET resolved == resolveColumn(schemaIndex.index, columnArg.v)
            IN IF ~Truthy(resolved)
               THEN Throw(ErrorOf("Unknown column: " \o columnArg.v))
               ELSE IF Get(resolved, "type").v \notin Range(allowedTypes)
               THEN Throw(ErrorOf("Column " \o Get(resolved, "name").v \o " is not of type "
                                    \o JoinTypes(allowedTypes)))
               ELSE Ok(resolved)
       ELSE LET inferred == findColumnByType(schemaIndex.index, Range(allowedTypes))
            IN IF ~Truthy(inferred)
               THEN Throw(ErrorOf("No evidence column found in schema. Provide --column."))
               ELSE Ok(inferred)
  ELSE IF ~Truthy(columnArg)
  THEN Throw(ErrorOf("Schema required or provide --column and --column-type."))
  ELSE Ok(Obj([id |-> columnArg, name |-> columnArg, type |-> Str(fallbackType)]))

\* ListColumn values to pick from, the id left out: select, completion, text
\* and evidence columns, some with the key or the name a pick goes by.
PickColumns ==
  {Obj([name |-> Str("Name"), type |-> Str("select")]),
   Obj([key |-> Str("priority"), name |-> Str("Name"), type |-> Str("select")]),
   Obj([name |-> Str("Status"), type |-> Str("select")]),
   Obj([name |-> Str("Name"), type |-> Str("todo_completed")]),
   Obj([name |-> Str("Name"), type |-> Str("text")]),
   Obj([key |-> Str("priority"), name |-> Str("Status"), type |-> Str("text")]),
   Obj([name |-> Str("Name"), type |-> Str("attachment")]),
   Obj([name |-> Str("Status"), type |-> Str("attachment")]),
   Obj([name |-> Str("Name"), type |-> Str("reference")]),
   Obj([name |-> Str("Name"), type |-> Str("link")]),
   Obj([key |-> Str("priority"), name |-> Str("Name"), type |-> Str("link")])}
PickSchemas ==
  {Obj([list_id |-> Str(ListId), columns |-> Arr(Numbered(columns))]) :
     columns \in SeqsUpTo(PickColumns, MaxColumns)}

\* The --column option of the evidence commands.
ColumnArgs == {Undefined, Str(""), Str("c1"), Str("Priority"), Str("STATUS"), Str("c9")}

\* The column type and the accepted types of the evidence commands: upload
\* and screenshot, link.
EvidenceKinds ==
  {[fallbackType |-> "attachment", allowedTypes |-> <<"attachment", "reference">>],
   [fallbackType |-> "link", allowedTypes |-> <<"link">>]}

\* A create or update command resolves the column of --priority.
CallResolvePriorityColumn ==
  /\ lib.fn = "none"
  /\ \E schema \in PickSchemas :
       lib' = [fn |-> "resolvePriorityColumn", schema |-> schema,
               out |-> OptionColumn(resolvePriorityColumn(buildSchemaIndex(schema)),
                                    "priority")]
  /\ UNCHANGED resolveVars

\* A create or update command resolves the column of --status.
CallResolveStatusColumn ==
  /\ lib.fn = "none"
  /\ \E schema \in PickSchemas :
       lib' = [fn |-> "resolveStatusColumn", schema |-> schema,
               out |-> OptionColumn(resolveStatusColumn(buildSchemaIndex(schema)),
                                    "status")]
  /\ UNCHANGED resolveVars

\* An evidence command resolves the column to write to, with the schema
\* index or without one.
CallResolveEvidenceColumn ==
  /\ lib.fn = "none"
  /\ \E schema \in PickSchemas \cup {Undefined} :
       \E columnArg \in ColumnArgs : \E kind \in EvidenceKinds :
         lib' = [fn |-> "resolveEvidenceColumn", schema |-> schema,
                 columnArg |-> columnArg, allowedTypes |-> kind.allowedTypes,
                 out |-> resolveEvidenceColumn(
                           IF schema = Undefined THEN Undefined ELSE IndexOf(schema),
                           columnArg, kind.fallbackType, kind.allowedTypes)]
  /\ UNCHANGED resolveVars

LibInit == Init /\ cache = FileMissing

NextLib ==
  \/ CallMerge
  \/ CallMergeAgain
  \/ CallMergeEarlier
  \/ CallResolveColumn
  \/ CallFindPrimaryTextColumn
  \/ CallInferSchemaFromItems
  \/ CallNormalizeSchema
  \/ CallLoadSchemaFromFile
  \/ CallNormalizeSchemaAgain
  \/ CallBuildSelectField
  \/ CallBuildCheckboxField
  \/ CallResolvePriorityColumn
  \/ CallResolveStatusColumn
  \/ CallResolveEvidenceColumn

\* Calls of the functions of lib/schema.ts on their own, each on arguments
\* drawn from the sets above.
SpecLib == LibInit /\ [][NextLib]_vars

\* ------------------------------------------------------------ remote calls

\* The default of the attempts parameter of callWithRetry.
attempts == 3

\* What the wrapped call of the web client can end with: a response, or an
\* error thrown: a platform error with its code, a rate-limit error with the
\* code, the retry_after of the response or the retryAfter of the client, an
\* error without data, and a thrown value that is no object.
ErrRateLimited == Obj([data |-> Obj([error |-> Str("ratelimited")])])
ErrRateLimitedAfter == Obj([data |-> Obj([error |-> Str("rate_limited"),
                                         retry_after |-> Num(2)])])
ErrRateLimitedAtOnce == Obj([data |-> Obj([error |-> Str("ratelimited"),
                                          retry_after |-> Num(0)])])
ErrRetryAfter == Obj([code |-> Str("slack_webapi_rate_limited_error"),
                      retryAfter |-> Num(3)])
ErrDataRetryAfter == Obj([data |-> Obj([retry_after |-> Num(1)])])
ErrNetwork == Obj([code |-> Str("slack_webapi_request_error")])
CallOutcomes ==
  {Ok(Obj([ok |-> Bool(TRUE)])),
   Throw(ErrRateLimited), Throw(ErrRateLimitedAfter), Throw(ErrRateLimitedAtOnce),
   Throw(ErrRetryAfter), Throw(ErrDataRetryAfter),
   Throw(ErrUnknownMethod), Throw(ErrListNotFound), Throw(ErrNetwork),
   Throw(Obj([data |-> Null])), Throw(Str("timeout")), Throw(Undefined)}

extractSlackErrorCode(error) ==
  IF ~Truthy(error) \/ TypeOf(error) # "object" THEN Undefined
  ELSE IF error.t = "object" /\ "data" \in DOMAIN error.v
          /\ Truthy(Get(Get(error, "data"), "error"))
  THEN Get(Get(error, "data"), "error")
  ELSE Undefined

\* Number.isFinite(x) for the values of the model.
IsFinite(x) == x.t = "number"

extractRetryAfter(error) ==
  IF ~Truthy(error) \/ TypeOf(error) # "object" THEN Undefined
  ELSE LET fromData == Get(Get(error, "data"), "retry_after")
           retryAfter == Get(error, "retryAfter")
       IN IF Truthy(fromData) /\ IsFinite(fromData) THEN fromData
          ELSE IF Truthy(retryAfter) /\ IsFinite(retryAfter) THEN retryAfter
          ELSE Undefined

\* Mutant of ShouldRetry: every error is retried while attempts are left.
ShouldRetryAnyError(error, attempt) == attempt < attempts - 1

\* The test of the catch block of callWithRetry: the error is a rate-limit
\* error and an attempt is left.
ShouldRetry(error, attempt) ==
  /\ \/ extractSlackErrorCode(error) \in {Str("ratelimited"), Str("rate_limited")}
     \/ Truthy(extractRetryAfter(error))
  /\ attempt < attempts - 1

\* Math.max(retryAfter ?? 1, 1) * 1000.
WaitMs(error) ==
  LET retryAfter == Coalesce(extractRetryAfter(error), Num(1)).v
  IN (IF retryAfter > 1 THEN retryAfter ELSE 1) * 1000

\* A method of the client is called: callWithRetry begins.
CallWithRetry ==
  /\ lib.fn = "none"
  /\ lib' = [fn |-> "callWithRetry", at |-> "call", attempt |-> 0,
             outcomes |-> <<>>, waitMs |-> 0, out |-> Pending]
  /\ UNCHANGED resolveVars

\* One pass of the loop: fn() is awaited; its result is returned, or its error
\* is caught and either slept on or thrown again.
InvokeCall ==
  /\ lib.fn = "callWithRetry" /\ lib.at = "call"
  /\ \E outcome \in CallOutcomes :
       lib' = IF outcome.ok
              THEN [lib EXCEPT !.outcomes = Append(@, outcome), !.at = "done",
                               !.out = outcome]
              ELSE IF ShouldRetry(outcome.error, lib.attempt)
              THEN [lib EXCEPT !.outcomes = Append(@, outcome), !.at = "sleep",
                               !.waitMs = WaitMs(outcome.error)]
              ELSE [lib EXCEPT !.outcomes = Append(@, outcome), !.at = "done",
                               !.out = outcome]
  /\ UNCHANGED resolveVars

\* The sleep ends: the attempt is counted and the loop goes round.
WakeUp ==
  /\ lib.fn = "callWithRetry" /\ lib.at = "sleep"
  /\ lib' = [lib EXCEPT !.attempt = @ + 1, !.at = "call"]
  /\ UNCHANGED resolveVars

NextRetry ==
  \/ CallWithRetry
  \/ InvokeCall
  \/ WakeUp

\* A call of a client method: the sleep ends after its time and the awaited
\* call ends with a response or an error.
SpecRetry == LibInit /\ [][NextRetry]_vars /\ WF_vars(NextRetry)

\* ------------------------------------------------------------------ claims

\* What a call's log shows.
Unsupported(e) == e.outcome.ok = FALSE
                  /\ Get(Get(e.outcome.error, "data"), "error") = Str("unknown_method")
Failed(e) == e.outcome.ok = FALSE /\ ~Unsupported(e)
IsRemote(e) == e.op \in {"slackLists.info", "slackLists.items.list"}
IsCacheOp(e) == e.op \in {"cache.read", "cache.write"}
Last(s) == s[Len(s)]
ColumnsOf(schema) == Get(schema, "columns").v
IdsOf(schema) == {Get(ColumnsOf(schema)[i], "id") : i \in DOMAIN ColumnsOf(schema)}
\* The call of p was given an explicit schema path: the argument, or the
\* environment default when the argument is absent.
Given(p) ==
  IF args[p].schemaPath # Undefined THEN Truthy(args[p].schemaPath)
  ELSE Truthy(args[p].envPath)
\* The columns a slackLists.items.list outcome lets inference discover.
Discovered(outcome) ==
  ColumnsOf(inferSchemaFromItems(ListId,
              Coalesce(Get(outcome.value, "items"), Arr(<<>>)).v))
\* The call of p went through updateSchemaCache and its save succeeded.
Updated(p) ==
  /\ pc[p] = "done"
  /\ ret[p].kind = "index"
  /\ Last(log[p]).op = "cache.write"
  /\ \E i \in DOMAIN log[p] : log[p][i].op = "slackLists.items.list"

\* C1: the save of updateSchemaCache writes the merge of the entry the process
\* loaded with what it inferred, whatever the entry holds by then; so when two
\* processes both load before either saves, the entry ends as the last
\* writer's merge and a column the other process saved is lost.
C1_SaveWritesStaleMerge ==
  [][\A p \in Procs :
       (pc[p] = "updateSave" /\ pc'[p] = "done" /\ ret'[p].kind = "index")
         => cache' = FileJson(JsonRoundTrip(mergeSchemas(local[p].cached,
                                                         local[p].inferred)))]_vars

\* C1 witness: two calls, both through updateSchemaCache from the same loaded
\* entry; the entry is the merge of process 2 and lacks a column that process 1
\* saved.
C1_LostUpdate ==
  /\ calls = 2
  /\ Updated(1) /\ Updated(2)
  /\ local[1].cached = local[2].cached
  /\ cache = FileJson(JsonRoundTrip(local[2].merged))
  /\ IdsOf(local[1].merged) \ IdsOf(cache.v) # {}

\* The columns of the cache file (none when it holds no schema).
FileColumns(file) == IF file.t = "json" THEN ColumnsOf(file.v) ELSE <<>>
\* A step that ends updateSchemaCache.
MergeStep == \E p \in Procs : pc[p] = "updateSave" /\ pc'[p] = "done"
\* A column keeps its id, and its key, type and options once it has them.
KeepsFacts(old, new) ==
  /\ Get(new, "id") = Get(old, "id")
  /\ Truthy(Get(old, "key")) => Get(new, "key") = Get(old, "key")
  /\ Get(old, "type") # Str("unknown") => Get(new, "type") = Get(old, "type")
  /\ Get(old, "options") # Undefined => Get(new, "options") = Get(old, "options")

\* C2 as stated: over merges run one after another no column disappears, and
\* a key once non-empty, a type once known, options once present and a name
\* once different from the id keep their value.
C2_MergeKeepsNameDifferentFromId ==
  [][MergeStep =>
       /\ Len(FileColumns(cache')) >= Len(FileColumns(cache))
       /\ \A i \in DOMAIN FileColumns(cache) :
            /\ KeepsFacts(FileColumns(cache)[i], FileColumns(cache')[i])
            /\ Get(FileColumns(cache)[i], "name") # Get(FileColumns(cache)[i], "id")
                 => Get(FileColumns(cache')[i], "name") = Get(FileColumns(cache)[i], "name")]_vars

\* C2 amended: as above, for a name once non-empty and different from the id
\* (an empty name is filled like a name equal to the id).
C2_MergeMonotone ==
  [][MergeStep =>
       /\ Len(FileColumns(cache')) >= Len(FileColumns(cache))
       /\ \A i \in DOMAIN FileColumns(cache) :
            /\ KeepsFacts(FileColumns(cache)[i], FileColumns(cache')[i])
            /\ (Truthy(Get(FileColumns(cache)[i], "name"))
                /\ Get(FileColumns(cache)[i], "name") # Get(FileColumns(cache)[i], "id"))
                 => Get(FileColumns(cache')[i], "name") = Get(FileColumns(cache)[i], "name")]_vars

\* C2 witness: a merge has been saved over an entry that held a column of a
\* known type, key and name, for which the inferred schema gave another type.
C2_MergeOverKnownColumn ==
  \E p \in Procs :
    /\ Updated(p)
    /\ Truthy(local[p].cached)
    /\ cache = FileJson(JsonRoundTrip(local[p].merged))
    /\ \E i \in DOMAIN ColumnsOf(local[p].cached), j \in DOMAIN ColumnsOf(local[p].inferred) :
         LET old == ColumnsOf(local[p].cached)[i]
             inc == ColumnsOf(local[p].inferred)[j]
         IN /\ Get(old, "id") = Get(inc, "id")
            /\ Truthy(Get(old, "key"))
            /\ Truthy(Get(old, "name")) /\ Get(old, "name") # Get(old, "id")
            /\ Get(old, "type") # Str("unknown")
            /\ Get(inc, "type") \notin {Str("unknown"), Get(old, "type")}

\* C3: a call that ends with a write of the cache file (the schema was
\* obtained) returns the index, whether the write succeeded or failed.
C3_PersistFailureTolerated ==
  \A p \in Procs :
    (pc[p] = "done" /\ log[p] # <<>> /\ Last(log[p]).op = "cache.write")
      => ret[p].kind = "index"

\* C4: the strategies are tried in the order explicit file, cache load,
\* slackLists.info, slackLists.items.list, and the first success ends the
\* call: nothing follows the read of an explicit file or a cache hit, and no
\* row listing follows a metadata fetch that succeeded.
C4_StrictOrder ==
  \A p \in Procs :
    LET l == log[p]
    IN /\ l # <<>> =>
            l[1].op = (IF Given(p) THEN "schemaFile.read"
                       ELSE IF ~args[p].refreshCache THEN "cache.read"
                       ELSE "slackLists.info")
       /\ \A i \in DOMAIN l :
            /\ l[i].op = "schemaFile.read" => Len(l) = 1
            /\ (i = 1 /\ l[i].op = "cache.read" /\ l[i].outcome.ok
                /\ Truthy(l[i].outcome.value)) => Len(l) = 1
            /\ l[i].op = "slackLists.info" =>
                 /\ i = 1 \/ (i = 2 /\ l[1].op = "cache.read")
                 /\ l[i].outcome.ok =>
                      \A j \in DOMAIN l : l[j].op # "slackLists.items.list"
            /\ l[i].op = "slackLists.items.list" =>
                 /\ i > 1 /\ l[i - 1].op = "slackLists.info"
                 /\ \A j \in DOMAIN l : IsRemote(l[j]) => j <= i

\* C4 witness: a call ended by a successful metadata fetch after a cache miss.
C4_EndedByMetadata ==
  \E p \in Procs :
    /\ pc[p] = "done" /\ ret[p].kind = "index" /\ Len(log[p]) = 3
    /\ log[p][1].op = "cache.read"
    /\ log[p][2].op = "slackLists.info" /\ log[p][2].outcome.ok

\* C5: a call given an explicit schema path issues no cache read, no cache
\* write and no remote call, and the cache file stays as it was when the call
\* began, whether the file loads or fails.
C5_ExplicitPathFrame ==
  \A p \in Procs :
    (pc[p] # "idle" /\ Given(p)) =>
      /\ cache = cache0[p]
      /\ \A i \in DOMAIN log[p] : ~IsCacheOp(log[p][i]) /\ ~IsRemote(log[p][i])

\* C5 witness: a call with the path from the environment default has failed
\* on its file while the cache holds a schema.
C5_EnvPathFailed ==
  \E p \in Procs :
    /\ pc[p] = "done" /\ args[p].schemaPath = Undefined /\ Truthy(args[p].envPath)
    /\ ret[p].kind = "throw" /\ cache.t = "json"

\* C6: with no explicit path and no refresh, a call that loads a cache entry
\* returns the index over exactly that entry, with no remote call and no cache
\* write; with refresh the first operation is the metadata fetch.
C6_CacheHit ==
  \A p \in Procs :
    /\ (pc[p] = "done" /\ ~Given(p) /\ ~args[p].refreshCache
        /\ cache0[p].t = "json" /\ log[p][1].outcome.ok) =>
         /\ ret[p] = IndexOf(cache0[p].v)
         /\ Len(log[p]) = 1 /\ log[p][1].op = "cache.read"
         /\ cache = cache0[p]
    /\ (~Given(p) /\ args[p].refreshCache /\ log[p] # <<>>) =>
         log[p][1].op = "slackLists.info"

\* C6 witness: a call answered from a cache entry of two columns.
C6_AnsweredFromCache ==
  \E p \in Procs :
    /\ pc[p] = "done" /\ ~Given(p) /\ ~args[p].refreshCache
    /\ cache0[p].t = "json" /\ Len(ColumnsOf(cache0[p].v)) = 2
    /\ ret[p].kind = "index"

\* The schema a slackLists.info response normalizes to.
Normalized(e) == normalizeSchema(e.outcome.value).value

\* C7: after a call that fetched the metadata and returned, the cache file
\* holds the normalized metadata schema alone and the index is built over it.
C7_MetadataOverwrites ==
  \A p \in Procs : \A i \in DOMAIN log[p] :
    (pc[p] = "done" /\ ret[p].kind # "throw"
     /\ log[p][i].op = "slackLists.info" /\ log[p][i].outcome.ok) =>
      /\ cache = FileJson(JsonRoundTrip(Normalized(log[p][i])))
      /\ ret[p] = IndexOf(Normalized(log[p][i]))

\* C7 witness: the fetch replaced an entry that held a column the metadata
\* does not list.
C7_OldColumnGone ==
  \E p \in Procs : \E i \in DOMAIN log[p] :
    /\ pc[p] = "done" /\ ret[p].kind = "index"
    /\ log[p][i].op = "slackLists.info" /\ log[p][i].outcome.ok
    /\ cache0[p].t = "json"
    /\ IdsOf(cache0[p].v) \ IdsOf(cache.v) # {}

\* C8: a row listing is requested only right after a metadata fetch that
\* reported unknown_method.
C8_ItemsOnlyAfterUnsupported ==
  \A p \in Procs : \A i \in DOMAIN log[p] :
    log[p][i].op = "slackLists.items.list" =>
      /\ i > 1
      /\ log[p][i - 1].op = "slackLists.info"
      /\ Unsupported(log[p][i - 1])

\* C8 witness: a row listing has been requested.
C8_ItemsRequested ==
  \E p \in Procs : \E i \in DOMAIN log[p] :
    log[p][i].op = "slackLists.items.list" /\ log[p][i].outcome.ok

\* C9: a remote call that fails with another error than unknown_method is the
\* last operation of the call, which throws that error and has not changed
\* the cache file.
C9_OtherErrorsAbort ==
  \A p \in Procs : \A i \in DOMAIN log[p] :
    (IsRemote(log[p][i]) /\ Failed(log[p][i])) =>
      /\ i = Len(log[p])
      /\ pc[p] = "done"
      /\ ret[p] = Thrown(log[p][i].outcome.error)
      /\ cache = cache0[p]

\* C9 witness: the row listing failed while the cache holds a schema.
C9_ItemsFailed ==
  \E p \in Procs :
    /\ log[p] # <<>> /\ Last(log[p]).op = "slackLists.items.list"
    /\ Failed(Last(log[p])) /\ cache.t = "json"

\* C10: when the row listing reports unknown_method or lets inference
\* discover no column, the call returns undefined at once and the cache file
\* is as it was when the call began (none is created).
C10_NothingDiscovered ==
  \A p \in Procs : \A i \in DOMAIN log[p] :
    (log[p][i].op = "slackLists.items.list"
     /\ (Unsupported(log[p][i])
         \/ (log[p][i].outcome.ok /\ Discovered(log[p][i].outcome) = <<>>))) =>
      /\ i = Len(log[p])
      /\ pc[p] = "done"
      /\ ret[p] = Returned(Undefined)
      /\ cache = cache0[p]

\* C10 witness: no explicit file, no cache entry, metadata unsupported and a
\* row listing whose rows carry no column id.
C10_AbsentFromRows ==
  \E p \in Procs :
    /\ pc[p] = "done" /\ ~Given(p) /\ cache0[p] = FileMissing
    /\ Len(log[p]) = 3
    /\ Last(log[p]).op = "slackLists.items.list"
    /\ Last(log[p]).outcome.ok
    /\ Get(Last(log[p]).outcome.value, "items") # Undefined
    /\ ret[p] = Returned(Undefined)
    /\ cache = FileMissing

\* The properties of a ListColumn.
ColumnFields == {"id", "key", "name", "type", "is_primary_column", "options"}
\* Two schemas read alike: the same list id and, column by column, the same
\* value for every property of a ListColumn (an absent property and one that
\* holds undefined read alike).
SameSchema(a, b) ==
  /\ Get(a, "list_id") = Get(b, "list_id")
  /\ Len(ColumnsOf(a)) = Len(ColumnsOf(b))
  /\ \A i \in DOMAIN ColumnsOf(a) : \A f \in ColumnFields :
       Get(ColumnsOf(a)[i], f) = Get(ColumnsOf(b)[i], f)
\* The schema a cache file holds (null when the file is missing).
EntryOf(file) == IF file.t = "json" THEN file.v ELSE Null

\* C11: with calls run one after another, a call whose row listing lets
\* inference discover a column and whose cache read and write succeed is
\* done with the index over merge(entry loaded then, inferred schema), the
\* loaded entry being the one the file held when the call began, and the cache
\* file already holds a schema that reads like the schema of that index.
C11_MergedPersistedThenReturned ==
  \A p \in Procs : \A i \in DOMAIN log[p] :
    (/\ pc[p] = "done"
     /\ log[p][i].op = "slackLists.items.list" /\ log[p][i].outcome.ok
     /\ Discovered(log[p][i].outcome) # <<>>
     /\ \A k \in DOMAIN log[p] : IsCacheOp(log[p][k]) => log[p][k].outcome.ok) =>
      LET inferred == Obj([list_id |-> Str(ListId),
                           columns |-> Arr(Discovered(log[p][i].outcome))])
      IN /\ Len(log[p]) = i + 2
         /\ log[p][i + 1].op = "cache.read" /\ log[p][i + 2].op = "cache.write"
         /\ log[p][i + 1].outcome.value = EntryOf(cache0[p])
         /\ ret[p] = IndexOf(mergeSchemas(log[p][i + 1].outcome.value, inferred))
         /\ cache.t = "json" /\ SameSchema(cache.v, ret[p].index.schema)

\* C11 witness: a refreshing call merged inferred columns into an entry that
\* already held a column and returned the index over all of them.
C11_MergedIntoEntry ==
  \E p \in Procs :
    /\ Updated(p)
    /\ cache0[p].t = "json"
    /\ Len(ColumnsOf(ret[p].index.schema)) > Len(ColumnsOf(local[p].inferred))
    /\ Len(ColumnsOf(ret[p].index.schema)) > Len(ColumnsOf(cache0[p].v))
    /\ SameSchema(cache.v, ret[p].index.schema)

\* No two columns of the list have the same id.
DistinctIds(columns) ==
  \A i, j \in DOMAIN columns : Get(columns[i], "id") = Get(columns[j], "id") => i = j
\* The columns of a base schema (none for null).
BaseColumns(base) == IF Truthy(base) THEN ColumnsOf(base) ELSE <<>>
\* Two column lists read alike, property by property.
SameColumns(a, b) ==
  /\ Len(a) = Len(b)
  /\ \A i \in DOMAIN a : \A f \in ColumnFields : Get(a[i], f) = Get(b[i], f)

\* A result column after an incoming column of its id: key if missing, name if
\* empty or equal to the id, type if unknown, options if absent are taken from
\* the incoming column, everything else stays.
FilledFrom(existing, column) ==
  Obj([f \in ColumnFields |->
    CASE f = "key" ->
           IF ~Truthy(Get(existing, "key")) /\ Truthy(Get(column, "key"))
           THEN Get(column, "key") ELSE Get(existing, "key")
      [] f = "name" ->
           IF Get(existing, "name") \in {Str(""), Get(existing, "id")}
              /\ Truthy(Get(column, "name"))
           THEN Get(column, "name") ELSE Get(existing, "name")
      [] f = "type" ->
           IF Get(existing, "type") = Str("unknown")
           THEN Get(column, "type") ELSE Get(existing, "type")
      [] f = "options" ->
           IF Get(existing, "options") = Undefined
           THEN Get(column, "options") ELSE Get(existing, "options")
      [] OTHER -> Get(existing, f)])

\* The result columns when every incoming column, in order, is appended if
\* its id is not yet in the result and else fills the result column of its id.
RECURSIVE AppendOrFill(_, _)
AppendOrFill(result, incoming) ==
  IF incoming = <<>> THEN result
  ELSE LET column == Head(incoming)
           at == {i \in DOMAIN result : Get(result[i], "id") = Get(column, "id")}
       IN IF at = {} THEN AppendOrFill(Append(result, column), Tail(incoming))
          ELSE AppendOrFill(
                 [result EXCEPT ![CHOOSE i \in at : \A k \in at : i <= k] =
                                   FilledFrom(@, column)],
                 Tail(incoming))

\* The result of the merge call is what appending or filling column by column
\* gives, and it has one column per id.
MergedAsAppendOrFill ==
  /\ SameColumns(ColumnsOf(lib.out.result),
                 AppendOrFill(BaseColumns(lib.base), ColumnsOf(lib.incoming)))
  /\ DistinctIds(ColumnsOf(lib.out.result))

MergeAppendsOrFillsDistinctIds ==
  (/\ lib.fn = "mergeSchemas"
   /\ DistinctIds(BaseColumns(lib.base))
   /\ DistinctIds(ColumnsOf(lib.incoming)))
    => MergedAsAppendOrFill

\* A second merge into the result of a first one has been made.
MergedTwice == lib.fn \in {"mergeSchemas.again", "mergeSchemas.earlier"}

MergeIdempotentDistinctIds ==
  (/\ MergedTwice
   /\ DistinctIds(ColumnsOf(lib.base))
   /\ DistinctIds(ColumnsOf(lib.incoming)))
    => SameSchema(lib.out.result, lib.base)

\* C14: with calls run one after another (the file read is the one the call
\* began with), a cache load gives null only for a missing file and gives null
\* for a missing file that can be read for; a file that is no JSON or cannot
\* be read makes the load throw that very error, the load is then the last
\* operation of the call, the call throws the same error and the file is
\* untouched: no remote call follows.
C14_OnlyMissingIsAbsent ==
  \A p \in Procs : \A i \in DOMAIN log[p] :
    log[p][i].op = "cache.read" =>
      LET o == log[p][i].outcome
      IN /\ (o.ok /\ o.value = Null) => cache0[p] = FileMissing
         /\ cache0[p] = FileMissing => o \in {Ok(Null), Throw(ErrAccess)}
         /\ cache0[p] = FileMalformed => o \in {Throw(ErrSyntax), Throw(ErrAccess)}
         /\ cache0[p].t = "json" => o \in {Ok(cache0[p].v), Throw(ErrAccess)}
         /\ ~o.ok =>
              /\ i = Len(log[p])
              /\ pc[p] = "done"
              /\ ret[p] = Thrown(o.error)
              /\ cache = cache0[p]

\* C14 witness: a call found a cache file that is no JSON and threw the parse
\* error without any remote call.
C14_MalformedFailsResolve ==
  \E p \in Procs :
    /\ pc[p] = "done" /\ cache0[p] = FileMalformed
    /\ log[p] = <<Io("cache.read", Throw(ErrSyntax))>>
    /\ ret[p] = Thrown(ErrSyntax)

\* a and b are the same string but for letter case.
SameButCase(a, b) == ToLowerCase(a) = ToLowerCase(b)
\* The columns of the list that an identifier matches by id, by key, by name.
ById(columns, identifier) ==
  {i \in DOMAIN columns : Get(columns[i], "id") = Str(identifier)}
ByKey(columns, identifier) ==
  {i \in DOMAIN columns : /\ Truthy(Get(columns[i], "key"))
                          /\ SameButCase(Get(columns[i], "key").v, identifier)}
ByName(columns, identifier) ==
  {i \in DOMAIN columns : SameButCase(Get(columns[i], "name").v, identifier)}
\* The id, key and name strings of the list, each with its place.
Handles(columns) ==
  {h \in (DOMAIN columns) \X {"id", "key", "name"} : Get(columns[h[1]], h[2]).t = "string"}
\* No two of them are the same but for letter case.
AllDiffer(columns) ==
  \A g, h \in Handles(columns) :
    g # h => ~SameButCase(Get(columns[g[1]], g[2]).v, Get(columns[h[1]], h[2]).v)

\* C15: resolveColumn gives a column whose id is the identifier if there is
\* one; else one whose key is the identifier but for letter case; else one
\* whose name is; else undefined.  Over a schema whose ids, keys and names all
\* differ, an identifier that is a column's id, or its key or name in any
\* letter case, gives that column.
C15_TieredLookup ==
  lib.fn = "resolveColumn" =>
    LET columns == ColumnsOf(lib.schema)
        tier == IF ById(columns, lib.identifier) # {} THEN ById(columns, lib.identifier)
                ELSE IF ByKey(columns, lib.identifier) # {}
                THEN ByKey(columns, lib.identifier)
                ELSE ByName(columns, lib.identifier)
    IN /\ IF tier = {} THEN lib.out = Undefined
          ELSE \E i \in tier : lib.out = columns[i]
       /\ AllDiffer(columns) =>
            \A i \in ById(columns, lib.identifier) \cup ByKey(columns, lib.identifier)
                       \cup ByName(columns, lib.identifier) :
              lib.out = columns[i]

\* C15 witness: over a schema of two columns whose ids, keys and names all
\* differ, the key of the second column written in another letter case gave
\* the second column.
C15_KeyInOtherCase ==
  /\ lib.fn = "resolveColumn"
  /\ Len(ColumnsOf(lib.schema)) = 2
  /\ AllDiffer(ColumnsOf(lib.schema))
  /\ Truthy(Get(ColumnsOf(lib.schema)[1], "key"))
  /\ Truthy(Get(ColumnsOf(lib.schema)[2], "key"))
  /\ Get(ColumnsOf(lib.schema)[2], "key") # Str(lib.identifier)
  /\ ByKey(ColumnsOf(lib.schema), lib.identifier) = {2}
  /\ lib.out = ColumnsOf(lib.schema)[2]

\* The least and the greatest element of a non-empty set of positions.
Least(S) == CHOOSE i \in S : \A k \in S : i <= k
Greatest(S) == CHOOSE i \in S : \A k \in S : k <= i
\* The columns that share the key, or else the name, the lookup goes by: those
\* of the tier that answers, when there are at least two of them and no column
\* has the identifier as its id.
Sharing ==
  LET columns == ColumnsOf(lib.schema)
      byKey == ByKey(columns, lib.identifier)
      byName == ByName(columns, lib.identifier)
  IN IF lib.fn # "resolveColumn" \/ ById(columns, lib.identifier) # {} THEN {}
     ELSE IF byKey # {} THEN (IF Cardinality(byKey) >= 2 THEN byKey ELSE {})
     ELSE IF Cardinality(byName) >= 2 THEN byName ELSE {}

\* C16 as stated: when several columns share the key or the name looked up
\* (compared without letter case), the lookup gives the first of them in
\* schema order.
C16_FirstSharingWins ==
  Sharing # {} => lib.out = ColumnsOf(lib.schema)[Least(Sharing)]

\* C16 amended: the lookup gives the last of them in schema order.
C16_LastSharingWins ==
  Sharing # {} => lib.out = ColumnsOf(lib.schema)[Greatest(Sharing)]

\* C16 witness: two different columns share a key but for letter case, and
\* the lookup by that key gave the second.
C16_SecondOfSharedKey ==
  /\ lib.fn = "resolveColumn"
  /\ Sharing = {1, 2}
  /\ ByKey(ColumnsOf(lib.schema), lib.identifier) = {1, 2}
  /\ Get(ColumnsOf(lib.schema)[1], "key") # Get(ColumnsOf(lib.schema)[2], "key")
  /\ Get(ColumnsOf(lib.schema)[1], "id") # Get(ColumnsOf(lib.schema)[2], "id")
  /\ lib.out = ColumnsOf(lib.schema)[2]

\* The candidates of findPrimaryTextColumn, in the order they are tried.
NameCandidates == <<"name", "title", "task">>
\* The columns a candidate matches, and those of the first tier that matches.
Matching(columns, identifier) ==
  ById(columns, identifier) \cup ByKey(columns, identifier) \cup ByName(columns, identifier)
FirstTier(columns, identifier) ==
  IF ById(columns, identifier) # {} THEN ById(columns, identifier)
  ELSE IF ByKey(columns, identifier) # {} THEN ByKey(columns, identifier)
  ELSE ByName(columns, identifier)
\* The positions of the flagged columns and of the text columns.
Flagged(columns) ==
  {i \in DOMAIN columns : Get(columns[i], "is_primary_column") = Bool(TRUE)}
Textual(columns) ==
  {i \in DOMAIN columns : Get(columns[i], "type") \in {Str("text"), Str("rich_text")}}

\* C17: findPrimaryTextColumn gives the first flagged column; else, for the
\* first of name, title, task that matches a column by key or name, a column
\* that lookup resolves it to; else the first column of type text or
\* rich_text; else undefined.
C17_PrimaryPrecedence ==
  lib.fn = "findPrimaryTextColumn" =>
    LET columns == ColumnsOf(lib.schema)
        hits == {c \in DOMAIN NameCandidates : Matching(columns, NameCandidates[c]) # {}}
    IN IF Flagged(columns) # {} THEN lib.out = columns[Least(Flagged(columns))]
       ELSE IF hits # {}
       THEN \E i \in FirstTier(columns, NameCandidates[Least(hits)]) : lib.out = columns[i]
       ELSE IF Textual(columns) # {} THEN lib.out = columns[Least(Textual(columns))]
       ELSE lib.out = Undefined

\* C17 witness: no column is flagged, the first column is a text column that
\* no candidate matches, and the second, no text column, was given for its
\* key title.
C17_CandidateBeforeText ==
  /\ lib.fn = "findPrimaryTextColumn"
  /\ Len(ColumnsOf(lib.schema)) = 2
  /\ Flagged(ColumnsOf(lib.schema)) = {}
  /\ Textual(ColumnsOf(lib.schema)) = {1}
  /\ Matching(ColumnsOf(lib.schema), "name") = {}
  /\ ByKey(ColumnsOf(lib.schema), "title") = {2}
  /\ lib.out = ColumnsOf(lib.schema)[2]

\* The column id a field carries: column_id, else columnId, as a string; none
\* ("") for a value that is no object.
FieldId(field) ==
  IF field.t # "object" THEN ""
  ELSE ToJsString(Coalesce(Get(field, "column_id"),
                    Coalesce(Get(field, "columnId"), Str(""))))
\* The places, among the fields of the rows, of those that carry a column id,
\* and of those that are the first to carry theirs.
Carriers(fields) == {i \in DOMAIN fields : FieldId(fields[i]) # ""}
FirstCarriers(fields) ==
  {i \in Carriers(fields) :
     \A j \in Carriers(fields) : j < i => FieldId(fields[j]) # FieldId(fields[i])}

\* C18: inferSchemaFromItems gives one column per distinct column id of the
\* rows, in the order the ids first appear, and each column is the one inferred
\* (key, name, type) from the first field that carries its id.
C18_FirstObservationWins ==
  lib.fn = "inferSchemaFromItems" =>
    LET firsts == FirstCarriers(lib.fields)
        columns == ColumnsOf(lib.out)
    IN /\ Len(columns) = Cardinality(firsts)
       /\ DistinctIds(columns)
       /\ \A i \in firsts :
            columns[Cardinality({j \in firsts : j <= i})] =
              InferredColumn(lib.fields[i], FieldId(lib.fields[i]))

\* C18 witness: a row with {c1, text} and then a row with a select field of
\* c1 gave the single column c1 of type text.
C18_TextThenSelect ==
  /\ lib.fn = "inferSchemaFromItems"
  /\ lib.fields = <<FieldText, FieldStatus>> /\ lib.split = 1
  /\ Len(ColumnsOf(lib.out)) = 1
  /\ Get(ColumnsOf(lib.out)[1], "id") = Str("c1")
  /\ Get(ColumnsOf(lib.out)[1], "type") = Str("text")
  /\ Get(ColumnsOf(lib.out)[1], "key") = Undefined

\* C19: no column that inferSchemaFromItems gives has options, whatever the
\* fields hold, and when no field of the rows carries a column id the call
\* gives a schema with an empty column list.
C19_NoOptionsInferred ==
  lib.fn = "inferSchemaFromItems" =>
    /\ \A n \in DOMAIN ColumnsOf(lib.out) : Get(ColumnsOf(lib.out)[n], "options") = Undefined
    /\ Carriers(lib.fields) = {} =>
         lib.out = Obj([list_id |-> Str(ListId), columns |-> Arr(<<>>)])

\* C19 witness: rows with a select field holding its values and a field
\* holding options gave a select column and a second column, both without
\* options.
C19_SelectWithoutChoices ==
  /\ lib.fn = "inferSchemaFromItems"
  /\ lib.fields = <<FieldStatus, FieldRich, FieldNoId>>
  /\ Len(ColumnsOf(lib.out)) = 2
  /\ Get(ColumnsOf(lib.out)[1], "type") = Str("select")
  /\ Get(ColumnsOf(lib.out)[1], "options") = Undefined
  /\ Get(ColumnsOf(lib.out)[2], "options") = Undefined

\* The raw column entries of a payload.
RawColumnsOf(data) ==
  IF Get(data, "list_metadata") # Undefined
  THEN Get(Get(data, "list_metadata"), "schema").v
  ELSE Get(data, "columns").v
\* The members of the allow-list that a raw type is, but for letter case.
AllowedAs(raw) ==
  IF raw.t # "string" THEN {}
  ELSE {type \in AllowedColumnTypes : SameButCase(raw.v, type)}

\* C20: normalizing a column never fails for its type: a raw type that is
\* missing, no string or a string outside the allow-list gives unknown, and
\* one that is a member of the allow-list in any letter case gives that
\* member in lower case.
C20_TypeFoldedOrUnknown ==
  lib.fn = "normalizeSchema" =>
    /\ lib.out.ok
    /\ Len(ColumnsOf(lib.out.value)) = Len(RawColumnsOf(lib.data))
    /\ \A i \in DOMAIN RawColumnsOf(lib.data) :
         LET raw == Get(RawColumnsOf(lib.data)[i], "type")
             type == Get(ColumnsOf(lib.out.value)[i], "type")
         IN IF AllowedAs(raw) = {} THEN type = Str("unknown")
            ELSE type.v \in AllowedAs(raw) /\ type.v = ToLowerCase(type.v)

\* C20 witness: a payload with the raw types SELECT and true gave the types
\* select and unknown.
C20_UpperCaseAndNonString ==
  /\ lib.fn = "normalizeSchema"
  /\ Len(RawColumnsOf(lib.data)) = 2
  /\ Get(RawColumnsOf(lib.data)[1], "type") = Str("SELECT")
  /\ Get(RawColumnsOf(lib.data)[2], "type") = Bool(TRUE)
  /\ lib.out.ok
  /\ Get(ColumnsOf(lib.out.value)[1], "type") = Str("select")
  /\ Get(ColumnsOf(lib.out.value)[2], "type") = Str("unknown")

\* The places normalizeSchema looks for the column list, in their order of
\* priority: the wrapper (its schema, or its columns when it has no schema),
\* the top-level schema, the top-level columns.
ListPlaces(data) ==
  LET wrapper == Get(data, "list_metadata")
  IN << IF wrapper.t \in {"object", "array"}
        THEN Coalesce(Get(wrapper, "schema"), Get(wrapper, "columns"))
        ELSE Undefined,
        Get(data, "schema"),
        Get(data, "columns") >>
\* The value an entry has for its id: the first of id, column_id and columnId
\* that is present.
RawId(entry) ==
  Coalesce(Get(entry, "id"),
    Coalesce(Get(entry, "column_id"), Get(entry, "columnId")))
\* An entry lacks an id: it is no object, or none of the three properties is
\* present, or the one that is present is empty.
LacksId(entry) ==
  \/ entry.t # "object"
  \/ RawId(entry) \in {Undefined, Null, Str("")}
InvalidColumnErrors ==
  {ErrorOf("Invalid column entry in schema"),
   ErrorOf("Schema column missing id/column_id")}
SchemaFormatError == ErrorOf("Schema file missing expected schema/columns list")

\* C21: the column list is the first array among the wrapper's list, the
\* top-level schema and the top-level columns; with no array among them the
\* load fails with the schema-format error; with an entry of the chosen list
\* that lacks an id it fails with the invalid-column error; otherwise the
\* schema has one column per entry of the chosen list, in order.
C21_FirstArrayOrFormatError ==
  lib.fn = "loadSchemaFromFile" =>
    LET places == ListPlaces(lib.data)
        arrays == {i \in DOMAIN places : places[i].t = "array"}
    IN IF arrays = {} THEN lib.out = Throw(SchemaFormatError)
       ELSE LET chosen == places[Least(arrays)].v
            IN IF \E i \in DOMAIN chosen : LacksId(chosen[i])
               THEN ~lib.out.ok /\ lib.out.error \in InvalidColumnErrors
               ELSE /\ lib.out.ok
                    /\ Len(ColumnsOf(lib.out.value)) = Len(chosen)
                    /\ \A i \in DOMAIN chosen :
                         Get(ColumnsOf(lib.out.value)[i], "id")
                           = Str(ToJsString(RawId(chosen[i])))

\* C21 witness: a file with a top-level schema list beside a different
\* top-level columns list was loaded, and the schema list gave the columns.
C21_SchemaBeforeColumns ==
  /\ lib.fn = "loadSchemaFromFile"
  /\ Get(lib.data, "list_metadata") = Undefined
  /\ Get(lib.data, "schema").t = "array"
  /\ Get(lib.data, "columns").t = "array"
  /\ Get(lib.data, "schema") # Get(lib.data, "columns")
  /\ lib.out.ok
  /\ Len(ColumnsOf(lib.out.value)) = 2
  /\ Len(Get(lib.data, "columns").v) = 3

\* C22: normalization is idempotent: normalizing the JSON round trip of a
\* schema that normalization gave succeeds and gives a schema with the same
\* list id and, in the same order, columns with the same id, key, name, type,
\* primary flag and options.
C22_NormalizeIdempotent ==
  lib.fn = "normalizeSchema.again" =>
    /\ lib.out.ok
    /\ SameSchema(lib.out.value, lib.first)

\* C22 witness: a schema with a list id and two columns, the first flagged
\* primary, without key and options and named by its id, the second with a
\* key and options, was normalized again.
C22_RenormalizedTwoColumns ==
  /\ lib.fn = "normalizeSchema.again"
  /\ Get(lib.first, "list_id") = Str(ListId)
  /\ Len(ColumnsOf(lib.first)) = 2
  /\ LET a == ColumnsOf(lib.first)[1]
         b == ColumnsOf(lib.first)[2]
     IN /\ Get(a, "key") = Undefined /\ Get(a, "options") = Undefined
        /\ Get(a, "name") = Get(a, "id")
        /\ Get(a, "type") = Str("unknown")
        /\ Get(a, "is_primary_column") = Bool(TRUE)
        /\ Get(b, "key") = Str("status")
        /\ Get(b, "options").t = "object"
  /\ lib.out.ok

\* The choices of the select column of an encoding call.
ChoicesOf(column) == Coalesce(Get(Get(column, "options"), "choices"), Arr(<<>>)).v
\* The choices a token equals, but for letter case, by value or by label.
Meeting(choices, token) ==
  {k \in DOMAIN choices :
     \/ LowerChars(Get(choices[k], "value").v) = LowerChars(token)
     \/ /\ Get(choices[k], "label") # Undefined
        /\ LowerChars(Get(choices[k], "label").v) = LowerChars(token)}
\* The select entries are those of the tokens, one per token in order: the
\* value of the first choice the token meets, or the token itself.
EncodesTokens(column, tokens, entries) ==
  /\ Len(entries) = Len(tokens)
  /\ \A i \in DOMAIN tokens :
       LET meeting == Meeting(ChoicesOf(column), tokens[i])
       IN IF meeting = {} THEN entries[i] = Str(tokens[i])
          ELSE entries[i] = Get(ChoicesOf(column)[Least(meeting)], "value")
\* The pieces of a raw value between its commas, without the blanks around
\* them, those that are empty left out.
TrimmedTokens(rawValue) ==
  LET pieces == SplitOnCommas(rawValue)
  IN SelectSeq([i \in DOMAIN pieces |-> Trim(pieces[i])], LAMBDA piece : Len(piece) > 0)
IsSelectCall == lib.fn = "buildTypedField" /\ Get(lib.column, "type") = Str("select")

\* C23 (as stated): encoding a select column never fails and gives one entry
\* per token of the raw value split on commas, in order: the value of the
\* choice the token equals by value or label, case-insensitively, and the
\* token unchanged when it meets no choice or the column has none.
C23_EntryPerCommaToken ==
  IsSelectCall =>
    /\ lib.out.ok
    /\ DOMAIN lib.out.value.v = {"select"}
    /\ EncodesTokens(lib.column, SplitOnCommas(lib.rawValue), Get(lib.out.value, "select").v)

\* C23 (amended): the same, the tokens being the pieces between the commas
\* with the blanks around them removed, the empty ones left out.
C23_EntryPerTrimmedToken ==
  IsSelectCall =>
    /\ lib.out.ok
    /\ DOMAIN lib.out.value.v = {"select"}
    /\ EncodesTokens(lib.column, TrimmedTokens(lib.rawValue), Get(lib.out.value, "select").v)

\* C23 witness: the raw value "H, u" was encoded for a column whose one
\* choice has the value h: the first token gave h, the second, which meets no
\* choice, gave u without its blank.
C23_MatchedAndPassedThrough ==
  /\ IsSelectCall
  /\ lib.rawValue = <<"H", ",", " ", "u">>
  /\ ChoicesOf(lib.column) = <<ChoiceH>>
  /\ Get(lib.out.value, "select") = Arr(<<Str(<<"h">>), Str(<<"u">>)>>)

\* The words a checkbox is checked by.
TrueWords ==
  {<<"t", "r", "u", "e">>, <<"y", "e", "s">>, <<"1">>,
   <<"c", "o", "m", "p", "l", "e", "t", "e", "d">>, <<"d", "o", "n", "e">>}
\* The raw value is one of the words, but for letter case.
IsTrueWord(value) ==
  \E word \in TrueWords :
    /\ Len(word) = Len(value)
    /\ \A i \in DOMAIN word :
         \/ value[i] = word[i]
         \/ \E k \in DOMAIN UpperCase : value[i] = UpperCase[k] /\ word[i] = LowerCase[k]
\* The raw value without the blanks before and after it.
Unpadded(value) ==
  LET inked == {i \in DOMAIN value : value[i] # " "}
  IN [i \in 1..(IF inked = {} THEN 0 ELSE Greatest(inked) - Least(inked) + 1) |->
        value[Least(inked) + i - 1]]
IsCheckboxCall ==
  /\ lib.fn = "buildTypedField"
  /\ Get(lib.column, "type") \in {Str("checkbox"), Str("todo_completed")}

\* C24 (as stated): encoding a checkbox or todo_completed column never fails
\* and gives true exactly when the raw value, but for letter case, is one of
\* true, yes, 1, completed, done.
C24_TrueForTheFiveWords ==
  IsCheckboxCall =>
    /\ lib.out.ok
    /\ lib.out.value = Obj([checkbox |-> Bool(IsTrueWord(lib.rawValue))])

\* C24 (amended): the same, the raw value being compared without the blanks
\* before and after it.
C24_TrueForTheFiveWordsUnpadded ==
  IsCheckboxCall =>
    /\ lib.out.ok
    /\ lib.out.value = Obj([checkbox |-> Bool(IsTrueWord(Unpadded(lib.rawValue)))])

\* C24 witness: a todo_completed column was encoded from "Done", which gave
\* true.
C24_DoneIsTrue ==
  /\ IsCheckboxCall
  /\ Get(lib.column, "type") = Str("todo_completed")
  /\ lib.rawValue = <<"D", "o", "n", "e">>
  /\ lib.out.value = Obj([checkbox |-> Bool(TRUE)])

\* A checkbox column was encoded from "nope", which gave false.
C24_NopeIsFalse ==
  /\ IsCheckboxCall
  /\ lib.rawValue = <<"n", "o", "p", "e">>
  /\ lib.out.value = Obj([checkbox |-> Bool(FALSE)])

\* The select columns of a schema, by position.
SelectsOf(schema) ==
  {i \in DOMAIN ColumnsOf(schema) : Get(ColumnsOf(schema)[i], "type") = Str("select")}
\* The columns of a schema of one of the types, by position.
TypedOf(schema, types) ==
  {i \in DOMAIN ColumnsOf(schema) : Get(ColumnsOf(schema)[i], "type").v \in types}
\* No column of the schema resolves by one of the names.
NoneResolves(schema, names) ==
  \A i \in DOMAIN names : resolveColumn(buildSchemaIndex(schema), names[i]) = Undefined
\* The pick of the call is a default pick among the select columns: a
\* priority pick, or a status pick without a todo_completed column, where no
\* column resolves by the expected key or name.
IsDefaultSelectPick ==
  \/ /\ lib.fn = "resolvePriorityColumn"
     /\ NoneResolves(lib.schema, <<"priority">>)
  \/ /\ lib.fn = "resolveStatusColumn"
     /\ TypedOf(lib.schema, {"todo_completed"}) = {}
     /\ NoneResolves(lib.schema, <<"status", "state">>)
AmbiguityErrors ==
  {ErrorOf("Multiple select columns found; specify --field with column key for priority."),
   ErrorOf("Multiple select columns found; specify --field with column key for status.")}
NotFoundErrors ==
  {ErrorOf("Unable to resolve priority column from schema"),
   ErrorOf("Unable to resolve status column from schema")}

\* C25: a default pick of the priority or the status column among the select
\* columns gives the select column when the schema has exactly one, fails with
\* the ambiguity error when it has two or more, and fails as not found when
\* it has none.
C25_UniqueSelectOrError ==
  IsDefaultSelectPick =>
    LET selects == SelectsOf(lib.schema)
    IN CASE Cardinality(selects) = 1 ->
              lib.out = Ok(ColumnsOf(lib.schema)[Least(selects)])
         [] Cardinality(selects) > 1 ->
              ~lib.out.ok /\ lib.out.error \in AmbiguityErrors
         [] OTHER ->
              ~lib.out.ok /\ lib.out.error \in NotFoundErrors

\* C25 witness: the priority column was picked by default from a schema with
\* two select columns, and the pick failed as ambiguous.
C25_TwoSelectsAmbiguous ==
  /\ lib.fn = "resolvePriorityColumn"
  /\ NoneResolves(lib.schema, <<"priority">>)
  /\ Cardinality(SelectsOf(lib.schema)) = 2
  /\ lib.out = Throw(ErrorOf("Multiple select columns found; specify --field with column key for priority."))

\* A status pick from a schema of one select column and no todo_completed
\* column gave that column.
C25_SingleSelectPicked ==
  /\ lib.fn = "resolveStatusColumn"
  /\ IsDefaultSelectPick
  /\ Len(ColumnsOf(lib.schema)) = 2
  /\ Cardinality(SelectsOf(lib.schema)) = 1
  /\ lib.out.ok

\* The call resolved the evidence column from a schema index and an explicit
\* column reference.
IsExplicitEvidencePick ==
  /\ lib.fn = "resolveEvidenceColumn"
  /\ lib.schema # Undefined
  /\ lib.columnArg \notin {Undefined, Str("")}
\* The call resolved the evidence column from a schema index without a column
\* reference.
IsDefaultEvidencePick ==
  /\ lib.fn = "resolveEvidenceColumn"
  /\ lib.schema # Undefined
  /\ lib.columnArg \in {Undefined, Str("")}
TypeMismatchErrors ==
  {ErrorOf("Column " \o name \o " is not of type " \o types) :
     name \in {"Name", "Status"}, types \in {"attachment/reference", "link"}}

\* C26: with a schema index and an explicit reference, the evidence column is
\* the column the reference resolves to when its type is accepted; a
\* reference that does not resolve fails with the unknown-column error and a
\* column of another type with the type-mismatch error, so that no column of
\* a type that is not accepted is returned.
C26_ExplicitEvidenceColumnChecked ==
  IsExplicitEvidencePick =>
    LET resolved == resolveColumn(buildSchemaIndex(lib.schema), lib.columnArg.v)
    IN /\ IF resolved = Undefined
          THEN lib.out = Throw(ErrorOf("Unknown column: " \o lib.columnArg.v))
          ELSE IF Get(resolved, "type").v \in Range(lib.allowedTypes)
          THEN lib.out = Ok(resolved)
          ELSE ~lib.out.ok /\ lib.out.error \in TypeMismatchErrors
       /\ lib.out.ok => Get(lib.out.value, "type").v \in Range(lib.allowedTypes)

\* C26 witness: the reference resolved, by name in another letter case, to a
\* select column of a schema that also has a link column, and the link pick
\* failed with the type-mismatch error.
C26_SelectRefusedAsLink ==
  /\ IsExplicitEvidencePick
  /\ lib.columnArg = Str("STATUS")
  /\ lib.allowedTypes = <<"link">>
  /\ TypedOf(lib.schema, {"link"}) # {}
  /\ lib.out = Throw(ErrorOf("Column Status is not of type link"))

\* An explicit reference resolved to an attachment column, which was returned.
C26_AttachmentReturned ==
  /\ IsExplicitEvidencePick
  /\ lib.out.ok
  /\ Get(lib.out.value, "type") = Str("attachment")

\* C27: a default pick by type from a schema with more than one column of an
\* accepted type fails instead of giving the first of them; so for the
\* evidence column, and for the status column among todo_completed columns.
C27_AmbiguousTypePickFails ==
  /\ (IsDefaultEvidencePick /\ Cardinality(TypedOf(lib.schema, Range(lib.allowedTypes))) > 1)
       => ~lib.out.ok
  /\ (lib.fn = "resolveStatusColumn"
        /\ Cardinality(TypedOf(lib.schema, {"todo_completed"})) > 1)
       => ~lib.out.ok

\* The evidence pick alone: with more than one column of an accepted type and
\* no column reference it fails.
C27_AmbiguousEvidencePickFails ==
  (IsDefaultEvidencePick /\ Cardinality(TypedOf(lib.schema, Range(lib.allowedTypes))) > 1)
    => ~lib.out.ok

\* C28: mergeSchemas leaves its arguments as they were: after the call the
\* columns of incoming are those it was called with (base is read through
\* copies of its columns and has no other state to compare).
C28_MergeLeavesArguments ==
  lib.fn \in {"mergeSchemas", "mergeSchemas.again", "mergeSchemas.earlier"} =>
    lib.out.incoming = ColumnsOf(lib.incoming)

\* For an incoming schema whose column ids are distinct, mergeSchemas leaves
\* incoming as it was.
MergeLeavesDistinctIds ==
  (lib.fn = "mergeSchemas" /\ DistinctIds(ColumnsOf(lib.incoming))) =>
    lib.out.incoming = ColumnsOf(lib.incoming)

\* The call of p was a refreshing call without schema file whose
\* slackLists.info was answered as unsupported.
RefreshedUnsupported(p) ==
  /\ pc[p] = "done"
  /\ args[p].refreshCache /\ ~Given(p)
  /\ \E i \in DOMAIN log[p] : log[p][i].op = "slackLists.info" /\ Unsupported(log[p][i])
\* Every column of the old list is in the new one, at its place, with its id,
\* its key, type and options when it had them, and its name when it had one
\* other than its id.
KeepsColumns(old, new) ==
  /\ Len(new) >= Len(old)
  /\ \A i \in DOMAIN old :
       /\ KeepsFacts(old[i], new[i])
       /\ (Truthy(Get(old[i], "name")) /\ Get(old[i], "name") # Get(old[i], "id"))
            => Get(new[i], "name") = Get(old[i], "name")

IsRateLimit(outcome) ==
  /\ ~outcome.ok
  /\ outcome.error.t = "object"
  /\ \/ Get(Get(outcome.error, "data"), "error") \in {Str("ratelimited"), Str("rate_limited")}
     \/ \E hint \in {Get(Get(outcome.error, "data"), "retry_after"),
                      Get(outcome.error, "retryAfter")} :
          hint.t = "number" /\ hint.v > 0
\* The wrapped call is invoked at most three times, again only after a
\* rate-limit error; a response, an error that is no rate-limit error and the
\* error of the third attempt end the call, which returns or throws it.
RetryRule ==
  lib.fn = "callWithRetry" =>
    /\ Len(lib.outcomes) <= 3
    /\ \A i \in DOMAIN lib.outcomes :
         i < Len(lib.outcomes) => IsRateLimit(lib.outcomes[i])
    /\ lib.at = "call" => Len(lib.outcomes) < 3
    /\ lib.outcomes # <<>> =>
         IF IsRateLimit(Last(lib.outcomes)) /\ Len(lib.outcomes) < 3
         THEN lib.at \in {"sleep", "call"} /\ lib.out = Pending /\ lib.waitMs >= 1000
         ELSE lib.at = "done" /\ lib.out = Last(lib.outcomes)

\* C30: callWithRetry invokes the wrapped call at most 3 times, again only
\* after a rate-limit error, rethrows any other error after its attempt and
\* the rate-limit error of the third attempt, returns a response without
\* further call, and always ends.
C30_RetryBoundedAndEnds ==
  /\ []RetryRule
  /\ (lib.fn = "callWithRetry") ~> (lib.fn = "callWithRetry" /\ lib.at = "done")

\* C30 witness: the call was invoked three times, each time with a
\* rate-limit error, and the third error was thrown.
C30_ThirdRateLimitRethrown ==
  /\ lib.fn = "callWithRetry"
  /\ lib.at = "done"
  /\ Len(lib.outcomes) = 3
  /\ lib.outcomes[1] = Throw(ErrRetryAfter)
  /\ lib.outcomes[2] = Throw(ErrRateLimited)
  /\ lib.out = Throw(ErrRateLimitedAfter)

\* An unknown_method error was thrown after the single attempt.
C30_UnknownMethodNotRetried ==
  /\ lib.fn = "callWithRetry"
  /\ lib.outcomes = <<Throw(ErrUnknownMethod)>>
  /\ lib.out = Throw(ErrUnknownMethod)

====
